---- MODULE Spec2Model ----
(***************************************************************************)
(* A model of the job / job-execution lifecycle managers of                *)
(* scale/job/models.py (JobManager, Job, JobExecutionManager).             *)
(*                                                                         *)
(* Persisted rows and the in-memory Django model instances are kept apart: *)
(* `db` and `exe_db` are the tables, `mem` holds the model instances the   *)
(* last manager call was handed.  Every manager method is one action.      *)
(***************************************************************************)
EXTENDS Integers, Sequences, FiniteSets, TLC

\* ------------------------------------------------------------------ bounds
NumJobs == 1        \* job rows that are ever created
MaxExes == 2        \* cap on Job.num_exes (times a job is queued)
MaxJobExes == 1     \* job execution rows that are ever created

\* ------------------------------------------------------------- value sets
NoTime == "None"                  \* a null DateTimeField
NoError == "None"                 \* a null error foreign key
NoId == 0                         \* a null foreign key to job
Times == {"t1"}                   \* timestamps a caller passes as `when`
Now == "now"                      \* timezone.now()
Errors == {"err"}
NoResults == 0
NoOutput == 0
NoExeNum == 0                     \* a null JobExecution.exe_num
NoSize == -1                      \* a null disk_in_required / disk_out_required
MiB == 1048576                    \* 1024.0 * 1024.0 bytes
MIN_CPUS == 25                    \* 0.25, in hundredths
MIN_MEM == 128
MIN_DISK == 0
MultUnit == 2                     \* multipliers are counted in halves
NoPriority == -1                  \* priority=None, the default of queue_jobs
Priorities == {0, 7}              \* a priority override given to queue_jobs
JOB_STATUSES == {"PENDING", "BLOCKED", "QUEUED", "RUNNING", "FAILED", "COMPLETED", "CANCELED"}
FINAL_STATUSES == {"FAILED", "COMPLETED", "CANCELED"}
\* the job type a job is created for: priority, max_tries (copied onto the job)
JobTypePriority == 5
JobTypeMaxTries == 3

VARIABLES
    db,       \* table job: sequence of rows, the row id is the index
    exe_db,   \* table job_exe: sequence of rows, the row id is the index
    mem,      \* the job models the last call worked on: [ids -> row]
    last,     \* the last manager call: its name, arguments and outcome
    scope,    \* what a specification explores (never changes): the number of
              \* jobs and executions, the `when` values, the columns stored,
              \* the workers and the operations they run in transactions
    txn,      \* the database transactions in progress, one per worker
    job_types,      \* table job_type: sequence of rows, the id is the index
    job_type_revs,  \* table job_type_revision: sequence of rows
    updater,  \* the DatabaseUpdater object and the position of its update()
    resources,      \* NodeResources objects: name -> {resource name: value}
    error_db,       \* table error: sequence of rows, the id is the index
    cached_errors,  \* CACHED_ERRORS of the process: name -> row
    exe_mem   \* JobExecution models in memory: sequence of instances

vars == <<db, exe_db, mem, last, scope, txn, job_types, job_type_revs, updater,
          resources, error_db, cached_errors, exe_mem>>

Whens == scope.whens

\* no transaction in progress, none begun
NoTxns == [of |-> <<>>, begun |-> 0]

JobIds == 1..Len(db)
ExeIds == 1..Len(exe_db)
NoModels == [j \in {} |-> 0]
NoResources == [n \in {} |-> 0]        \* no NodeResources object
NoCachedErrors == [n \in {} |-> 0]     \* CACHED_ERRORS = {}

\* get_locked_jobs: the rows of the given ids, read under their row locks
get_locked_jobs(job_ids) == [j \in (job_ids \cap JobIds) |-> db[j]]

\* What is recorded of a call: its arguments, the ids it acted on (out) and
\* the job table it started from (pre); of a call that raised, its name
\* (and `arg`, where a claim needs it).
Call(op, jobs, status, when, error, arg, raised, out) ==
    IF raised
    THEN [op |-> op, jobs |-> {}, status |-> "", when |-> NoTime, error |-> NoError,
          arg |-> arg, raised |-> TRUE, out |-> {}, pre |-> db]
    ELSE [op |-> op, jobs |-> jobs, status |-> status, when |-> when, error |-> error,
          arg |-> arg, raised |-> FALSE, out |-> out, pre |-> db]

\* ------------------------------------------------------------ Job model
\* Job(): the field defaults of the model class
NewJob ==
    [status |-> "PENDING", error |-> NoError, data |-> FALSE, results |-> NoResults,
     job_type |-> NoId, job_type_rev |-> NoId,
     disk_in_required |-> NoSize, disk_out_required |-> NoSize,
     priority |-> 0, timeout |-> 0, max_tries |-> 0, num_exes |-> 0,
     is_superseded |-> FALSE, root_superseded_job |-> NoId, superseded_job |-> NoId,
     queued |-> NoTime, started |-> NoTime, ended |-> NoTime,
     last_status_change |-> NoTime, superseded |-> NoTime, last_modified |-> NoTime]

\* The columns every operation's control flow reads, the columns of the sizes
\* that populate_job_data derives, and all others.  A column outside
\* scope.columns is write-only and is kept at its default.
CoreColumns == {"status", "error", "data", "is_superseded", "num_exes",
                "root_superseded_job", "superseded_job"}
SizeColumns == {"disk_in_required", "disk_out_required"}
AllColumns == DOMAIN NewJob \ SizeColumns
Stored(row) == [f \in DOMAIN row |-> IF f \in scope.columns THEN row[f] ELSE NewJob[f]]
StoredAll(rows) == [j \in DOMAIN rows |-> Stored(rows[j])]

\* can_be_canceled that only spares COMPLETED jobs
can_be_canceled_unless_completed(job) == job.status # "COMPLETED"

can_be_canceled(job) == job.status \notin {"COMPLETED", "CANCELED"}
\* a job counts as ready to queue while it is queued or running as well
is_ready_to_queue_again(job) ==
    job.status \in {"PENDING", "CANCELED", "FAILED", "QUEUED", "RUNNING"}

is_ready_to_queue(job) == job.status \in {"PENDING", "CANCELED", "FAILED"}

\* Model.save(): every field of the instance is written, last_modified is auto_now
Saved(job) == [job EXCEPT !.last_modified = Now]

\* ------------------------------------------------------------ job types
NoInterface == "None"             \* interface=None: no change to the interface
Interfaces == {"i1", "i2"}        \* interfaces a caller passes
NoCustomResources == "None"       \* custom_resources=None: no change to them
UNEDITABLE_FIELDS == {"name", "version", "is_system", "is_long_running", "is_active",
                      "uses_docker", "revision_num", "created", "archived", "paused",
                      "last_modified"}

JobTypeIds == 1..Len(job_types)
RevisionIds == 1..Len(job_type_revs)

\* JobType(): the field defaults of the model class
NewJobType ==
    [interface |-> "{}", revision_num |-> 1, is_active |-> TRUE, is_system |-> FALSE,
     is_paused |-> FALSE, priority |-> 100, timeout |-> 1800, max_tries |-> 3,
     \* cpus in hundredths, MiB, and multipliers in halves
     cpus_required |-> 100, mem_const_required |-> 64, mem_mult_required |-> 0,
     disk_out_const_required |-> 64, disk_out_mult_required |-> 0,
     custom_resources |-> "{}", paused |-> NoTime]

\* the fields of a model that **kwargs sets
WithFields(job_type, kwargs) ==
    [f \in DOMAIN job_type |-> IF f \in DOMAIN kwargs THEN kwargs[f] ELSE job_type[f]]

\* the checks on **kwargs that create_job_type and edit_job_type start with
invalid_job_type_fields(kwargs) ==
    \/ \E f \in DOMAIN kwargs : f \in UNEDITABLE_FIELDS
    \/ ("timeout" \in DOMAIN kwargs /\ ~(kwargs["timeout"] > 0))
    \/ ("max_tries" \in DOMAIN kwargs /\ ~(kwargs["max_tries"] > 0))

\* create_job_type_revision: a row with the job type's number and interface
create_job_type_revision(revs, job_type_id, job_type) ==
    Append(revs, [job_type |-> job_type_id, revision_num |-> job_type.revision_num,
                  interface |-> job_type.interface])

\* create_job_type: the new job type and its first revision, in one atomic
\* block; `valid` is the outcome of the validation of the trigger rule and
\* of the configuration
create_job_type(types, revs, interface, kwargs, valid) ==
    IF invalid_job_type_fields(kwargs) \/ ~valid
    THEN [raised |-> TRUE, job_types |-> types, job_type_revs |-> revs]
    ELSE LET job_type == [WithFields(NewJobType, kwargs) EXCEPT !.interface = interface]
         IN  [raised |-> FALSE,
              job_types |-> Append(types, job_type),
              job_type_revs |-> create_job_type_revision(revs, Len(types) + 1, job_type)]

\* `if custom_resources: job_type.custom_resources = ...get_dict()`
with_custom_resources(job_type, custom_resources) ==
    IF custom_resources # NoCustomResources
    THEN [job_type EXCEPT !.custom_resources = custom_resources]
    ELSE job_type

\* the paused time follows a change of is_paused
with_paused(job_type, kwargs) ==
    IF "is_paused" \in DOMAIN kwargs /\ job_type.is_paused # kwargs["is_paused"]
    THEN [job_type EXCEPT !.paused = IF kwargs["is_paused"] THEN Now ELSE NoTime]
    ELSE job_type

\* edit_job_type keeping the revision number on a new interface
edit_job_type_same_revision(types, revs, job_type_id, interface, custom_resources, kwargs, valid) ==
    IF \/ invalid_job_type_fields(kwargs)
       \/ job_type_id \notin 1..Len(types)
    THEN [raised |-> TRUE, job_types |-> types, job_type_revs |-> revs]
    ELSE LET job_type == types[job_type_id]
             with_interface == IF interface # NoInterface
                               THEN [job_type EXCEPT !.interface = interface]
                               ELSE job_type
             edited == WithFields(with_paused(
                                      with_custom_resources(with_interface, custom_resources),
                                      kwargs), kwargs)
         IN  IF \/ (job_type.is_system
                     /\ (Cardinality(DOMAIN kwargs) > 1 \/ "is_paused" \notin DOMAIN kwargs))
                \/ ~valid
             THEN [raised |-> TRUE, job_types |-> types, job_type_revs |-> revs]
             ELSE [raised |-> FALSE,
                   job_types |-> [types EXCEPT ![job_type_id] = edited],
                   job_type_revs |-> IF interface # NoInterface
                                     THEN create_job_type_revision(revs, job_type_id, edited)
                                     ELSE revs]

\* edit_job_type: under the job type's row lock, a new interface raises the
\* revision number by one and, after the other fields are set and saved, gets
\* its revision row; any exception rolls the atomic block back.  A system
\* job type is checked on **kwargs alone: `interface`, `custom_resources`
\* and the other named parameters are not among them.
edit_job_type(types, revs, job_type_id, interface, custom_resources, kwargs, valid) ==
    IF \/ invalid_job_type_fields(kwargs)
       \/ job_type_id \notin 1..Len(types)
    THEN [raised |-> TRUE, job_types |-> types, job_type_revs |-> revs]
    ELSE LET job_type == types[job_type_id]
             with_interface == IF interface # NoInterface
                               THEN [job_type EXCEPT !.interface = interface,
                                                     !.revision_num = @ + 1]
                               ELSE job_type
             edited == WithFields(with_paused(
                                      with_custom_resources(with_interface, custom_resources),
                                      kwargs), kwargs)
         IN  IF \/ (job_type.is_system
                     /\ (Cardinality(DOMAIN kwargs) > 1 \/ "is_paused" \notin DOMAIN kwargs))
                \/ ~valid
             THEN [raised |-> TRUE, job_types |-> types, job_type_revs |-> revs]
             ELSE [raised |-> FALSE,
                   job_types |-> [types EXCEPT ![job_type_id] = edited],
                   job_type_revs |-> IF interface # NoInterface
                                     THEN create_job_type_revision(revs, job_type_id, edited)
                                     ELSE revs]

\* JobTypeRevision.objects.get_revision: the rows with that natural key
get_revision(job_type_id, revision_num) ==
    {r \in RevisionIds : /\ job_type_revs[r].job_type = job_type_id
                          /\ job_type_revs[r].revision_num = revision_num}

\* the model of a job type row, as a caller passes it
JobTypeModel(t) == [id |-> t, row |-> job_types[t]]

\* The job types of the specifications about jobs: one active and one
\* archived, each as left by create_job_type
PreparedTypes ==
    LET kwargs == [f \in {"priority", "max_tries"} |->
                     IF f = "priority" THEN JobTypePriority ELSE JobTypeMaxTries]
        one == create_job_type(<<>>, <<>>, "i1", kwargs, TRUE)
        two == create_job_type(one.job_types, one.job_type_revs, "i1", kwargs, TRUE)
    IN  [job_types |-> [two.job_types EXCEPT ![2].is_active = FALSE],
         job_type_revs |-> two.job_type_revs]

\* ---------------------------------------------------------- create_job
\* create_job taking the superseded job itself as the root
create_job_root_is_parent(job_type, event, superseded_job) ==
    LET revisions == get_revision(job_type.id, job_type.row.revision_num)
    IN  IF ~job_type.row.is_active \/ ~event \/ Cardinality(revisions) # 1
        THEN [raised |-> TRUE, job |-> NewJob]
        ELSE LET job == [NewJob EXCEPT !.job_type = job_type.id,
                                       !.job_type_rev = CHOOSE r \in revisions : TRUE,
                                       !.priority = job_type.row.priority,
                                       !.timeout = job_type.row.timeout,
                                       !.max_tries = job_type.row.max_tries]
             IN  [raised |-> FALSE,
                  job |-> IF superseded_job # NoId
                          THEN [job EXCEPT !.root_superseded_job = superseded_job,
                                           !.superseded_job = superseded_job]
                          ELSE job]

\* create_job without the check that the job type is active
create_job_of_inactive_type(job_type, event, superseded_job) ==
    LET revisions == get_revision(job_type.id, job_type.row.revision_num)
    IN  IF ~event \/ Cardinality(revisions) # 1
        THEN [raised |-> TRUE, job |-> NewJob]
        ELSE LET job == [NewJob EXCEPT !.job_type = job_type.id,
                                       !.job_type_rev = CHOOSE r \in revisions : TRUE,
                                       !.priority = job_type.row.priority,
                                       !.timeout = job_type.row.timeout,
                                       !.max_tries = job_type.row.max_tries]
             IN  [raised |-> FALSE,
                  job |-> IF superseded_job # NoId
                          THEN LET root_id ==
                                       IF db[superseded_job].root_superseded_job # NoId
                                       THEN db[superseded_job].root_superseded_job
                                       ELSE superseded_job
                               IN  [job EXCEPT !.root_superseded_job = root_id,
                                               !.superseded_job = superseded_job]
                          ELSE job]

\* create_job: the checks, the revision of the job type's revision_num (a
\* get() that finds no row, or several, raises), the fields copied from the
\* job type, the supersession links
create_job(job_type, event, superseded_job) ==
    LET revisions == get_revision(job_type.id, job_type.row.revision_num)
    IN  IF ~job_type.row.is_active \/ ~event \/ Cardinality(revisions) # 1
        THEN [raised |-> TRUE, job |-> NewJob]
        ELSE LET job == [NewJob EXCEPT !.job_type = job_type.id,
                                       !.job_type_rev = CHOOSE r \in revisions : TRUE,
                                       !.priority = job_type.row.priority,
                                       !.timeout = job_type.row.timeout,
                                       !.max_tries = job_type.row.max_tries]
             IN  [raised |-> FALSE,
                  job |-> IF superseded_job # NoId
                          THEN LET root_id ==
                                       IF db[superseded_job].root_superseded_job # NoId
                                       THEN db[superseded_job].root_superseded_job
                                       ELSE superseded_job
                               IN  [job EXCEPT !.root_superseded_job = root_id,
                                               !.superseded_job = superseded_job]
                          ELSE job]

\* create_job followed by the caller's job.save(); superseded_job is a
\* OneToOneField, so a job is superseded by at most one job
CreateJob ==
    \E t \in JobTypeIds, event \in BOOLEAN, superseded_job \in {NoId} \cup JobIds :
        /\ Len(db) < scope.jobs
        /\ superseded_job # NoId => \A j \in JobIds : db[j].superseded_job # superseded_job
        /\ LET r == create_job(JobTypeModel(t), event, superseded_job)
           IN  /\ db' = IF r.raised THEN db ELSE Append(db, Stored(Saved(r.job)))
               /\ mem' = NoModels
               /\ last' = Call("create_job", {}, "", NoTime, NoError,
                               [job_type |-> t, event |-> event],
                               r.raised, IF r.raised THEN {} ELSE {Len(db) + 1})
        /\ UNCHANGED <<exe_db, scope, txn, job_types, job_type_revs, updater,
                       resources, error_db, cached_errors, exe_mem>>

\* ----------------------------------------------- batches a caller may pass
Batches == (SUBSET JobIds) \ {{}}
ExeBatches == (SUBSET ExeIds) \ {{}}

\* QuerySet.filter(id__in=ids).update(...): one UPDATE statement
Update(table, rows) ==
    [j \in 1..Len(table) |-> IF j \in DOMAIN rows THEN rows[j] ELSE table[j]]

\* ---------------------------------------------------------- queue_jobs
\* the jobs to queue, chosen without looking at is_superseded
jobs_to_queue_superseded_too(jobs) ==
    {j \in DOMAIN jobs : ~(~is_ready_to_queue(jobs[j]) \/ ~jobs[j].data)}

jobs_to_queue(jobs) ==
    {j \in DOMAIN jobs :
        ~(~is_ready_to_queue(jobs[j]) \/ ~jobs[j].data \/ jobs[j].is_superseded)}

\* `if priority:` - None is false, and so is the priority 0
priority_given(priority) == priority # NoPriority /\ priority # 0

queue_jobs_mem(job, when, priority) ==
    [job EXCEPT !.status = "QUEUED", !.error = NoError, !.queued = when,
                !.started = NoTime, !.ended = NoTime, !.last_status_change = when,
                !.num_exes = @ + 1,
                !.priority = IF priority_given(priority) THEN priority ELSE @,
                !.last_modified = when]

\* an UPDATE that forgets num_exes
queue_jobs_update_no_exes(row, when, priority) ==
    [row EXCEPT !.status = "QUEUED", !.error = NoError, !.queued = when,
                !.started = NoTime, !.ended = NoTime, !.last_status_change = when,
                !.priority = IF priority_given(priority) THEN priority ELSE @,
                !.last_modified = when]

queue_jobs_update(row, when, priority) ==
    IF priority_given(priority)
    THEN [row EXCEPT !.status = "QUEUED", !.error = NoError, !.queued = when,
                     !.started = NoTime, !.ended = NoTime, !.last_status_change = when,
                     !.num_exes = @ + 1, !.priority = priority, !.last_modified = when]
    ELSE [row EXCEPT !.status = "QUEUED", !.error = NoError, !.queued = when,
                     !.started = NoTime, !.ended = NoTime, !.last_status_change = when,
                     !.num_exes = @ + 1, !.last_modified = when]

queue_jobs(table, jobs, when, priority) ==
    LET job_ids == jobs_to_queue(jobs)
        Set(row) == queue_jobs_update(row, when, priority)
    IN  [raised |-> FALSE,
         mem |-> [j \in DOMAIN jobs |-> IF j \in job_ids
                                        THEN queue_jobs_mem(jobs[j], when, priority)
                                        ELSE jobs[j]],
         db |-> Update(table, [j \in job_ids |-> Set(table[j])]),
         out |-> job_ids]

QueueJobs ==
    \E batch \in Batches, when \in Whens, priority \in {NoPriority} \cup Priorities :
        LET jobs == get_locked_jobs(batch)
            r == queue_jobs(db, jobs, when, priority)
        IN  /\ \A j \in jobs_to_queue(jobs) : db[j].num_exes < MaxExes
            /\ db' = StoredAll(r.db)
            /\ mem' = StoredAll(r.mem)
            /\ last' = Call("queue_jobs", batch, "QUEUED", when, NoError, priority, FALSE, r.out)
            /\ UNCHANGED <<exe_db, scope, txn, job_types, job_type_revs, updater,
                           resources, error_db, cached_errors, exe_mem>>

\* ------------------------------------------------------- update_status
update_status_mem(job, status, when, error) ==
    [job EXCEPT !.status = status, !.last_status_change = when,
                !.started = IF status = "RUNNING" THEN when ELSE @,
                !.ended = IF status \in FINAL_STATUSES THEN when ELSE NoTime,
                !.error = error, !.last_modified = Now]

\* an UPDATE that leaves rows in a final status alone
update_status_update_keeping_final(row, status, when, error) ==
    IF row.status \in FINAL_STATUSES
    THEN row
    ELSE [row EXCEPT !.status = status, !.last_status_change = when,
                     !.started = IF status = "RUNNING" THEN when ELSE @,
                     !.ended = IF status \in FINAL_STATUSES THEN when ELSE NoTime,
                     !.error = error, !.last_modified = Now]

update_status_update(row, status, when, error) ==
    IF status = "RUNNING"
    THEN [row EXCEPT !.status = status, !.last_status_change = when, !.started = when,
                     !.ended = IF status \in FINAL_STATUSES THEN when ELSE NoTime,
                     !.error = error, !.last_modified = Now]
    ELSE [row EXCEPT !.status = status, !.last_status_change = when,
                     !.ended = IF status \in FINAL_STATUSES THEN when ELSE NoTime,
                     !.error = error, !.last_modified = Now]

\* update_status without the check that sends QUEUED to queue_jobs()
update_status_any_target(table, jobs, status, when, error) ==
    IF \/ (status = "FAILED" /\ error = NoError)
       \/ (status # "FAILED" /\ error # NoError)
    THEN [raised |-> TRUE, mem |-> jobs, db |-> table, out |-> {}]
    ELSE LET Set(row) == update_status_update(row, status, when, error)
         IN  [raised |-> FALSE,
              mem |-> [j \in DOMAIN jobs |-> update_status_mem(jobs[j], status, when, error)],
              db |-> Update(table, [j \in DOMAIN jobs |-> Set(table[j])]),
              out |-> DOMAIN jobs]

\* update_status that runs its loop over the models before its checks
update_status_checking_late(table, jobs, status, when, error) ==
    IF \/ status = "QUEUED"
       \/ (status = "FAILED" /\ error = NoError)
       \/ (status # "FAILED" /\ error # NoError)
    THEN [raised |-> TRUE,
          mem |-> [j \in DOMAIN jobs |-> update_status_mem(jobs[j], status, when, error)],
          db |-> table, out |-> {}]
    ELSE LET Set(row) == update_status_update(row, status, when, error)
         IN  [raised |-> FALSE,
              mem |-> [j \in DOMAIN jobs |-> update_status_mem(jobs[j], status, when, error)],
              db |-> Update(table, [j \in DOMAIN jobs |-> Set(table[j])]),
              out |-> DOMAIN jobs]

update_status(table, jobs, status, when, error) ==
    IF \/ status = "QUEUED"
       \/ (status = "FAILED" /\ error = NoError)
       \/ (status # "FAILED" /\ error # NoError)
    THEN [raised |-> TRUE, mem |-> jobs, db |-> table, out |-> {}]
    ELSE LET Set(row) == update_status_update(row, status, when, error)
         IN  [raised |-> FALSE,
              mem |-> [j \in DOMAIN jobs |-> update_status_mem(jobs[j], status, when, error)],
              db |-> Update(table, [j \in DOMAIN jobs |-> Set(table[j])]),
              out |-> DOMAIN jobs]

UpdateStatus ==
    \E batch \in Batches, status \in JOB_STATUSES, when \in Whens,
       error \in {NoError} \cup Errors :
        LET r == update_status(db, get_locked_jobs(batch), status, when, error)
        IN  /\ db' = StoredAll(r.db)
            /\ mem' = StoredAll(r.mem)
            /\ last' = Call("update_status", batch, status, when, error,
                            [status |-> status, error |-> error, given |-> batch],
                            r.raised, r.out)
            /\ UNCHANGED <<exe_db, scope, txn, job_types, job_type_revs, updater,
                           resources, error_db, cached_errors, exe_mem>>

\* ------------------------------------------------------------ fail_job
fail_job(table, job_id, job, when, error) ==
    LET failed == [job EXCEPT !.status = "FAILED", !.error = error, !.ended = when,
                              !.last_status_change = when]
        Set(row) == Saved(failed)
    IN  [raised |-> FALSE,
         mem |-> [j \in {job_id} |-> Saved(failed)],
         db |-> Update(table, [j \in {job_id} |-> Set(table[j])]),
         out |-> {job_id}]

FailJob ==
    \E j \in JobIds, when \in Whens, error \in {NoError} \cup Errors :
        LET r == fail_job(db, j, db[j], when, error)
        IN  /\ db' = StoredAll(r.db)
            /\ mem' = StoredAll(r.mem)
            /\ last' = Call("fail_job", {j}, "FAILED", when, error, 0, r.raised, r.out)
            /\ UNCHANGED <<exe_db, scope, txn, job_types, job_type_revs, updater,
                           resources, error_db, cached_errors, exe_mem>>

\* -------------------------------------------------------- complete_job
\* what the notification of the batch counters comes to: the job is in no
\* batch, its batch counted it, or the counting failed
BatchNotifications == {"no_batch", "counted", "fails"}

\* JobExecutionOutput.objects.get(job_id=..., exe_num=...): the executions
\* of the job whose job_exe_output row has that execution number
get_output(exe_table, job_id, exe_num) ==
    {e \in 1..Len(exe_table) : /\ exe_table[e].job = job_id
                                /\ exe_table[e].output_exe_num # NoOutput
                                /\ exe_table[e].output_exe_num = exe_num}

\* complete_job reading the newest output row of the job, whatever its
\* execution number
complete_job_latest_output(table, exe_table, job_id, job, when, batch) ==
    LET completed == [job EXCEPT !.status = "COMPLETED", !.ended = when,
                                 !.last_status_change = when]
        outputs == {e \in 1..Len(exe_table) : /\ exe_table[e].job = job_id
                                               /\ exe_table[e].output_exe_num # NoOutput}
    IN  IF outputs = {}
        THEN [raised |-> TRUE, mem |-> [j \in {job_id} |-> completed], db |-> table,
              out |-> {}]
        ELSE LET e == CHOOSE o \in outputs : \A other \in outputs : other <= o
                 saved == Saved([completed EXCEPT !.results = exe_table[e].output])
             IN  [raised |-> (batch = "fails"), mem |-> [j \in {job_id} |-> saved],
                  db |-> Update(table, [j \in {job_id} |-> saved]), out |-> {job_id}]

\* complete_job reading the job's execution number from num_exes
complete_job_by_num_exes(table, exe_table, job_id, job, when, batch) ==
    LET completed == [job EXCEPT !.status = "COMPLETED", !.ended = when,
                                 !.last_status_change = when]
        outputs == get_output(exe_table, job_id, job.num_exes)
    IN  IF Cardinality(outputs) # 1
        THEN [raised |-> TRUE, mem |-> [j \in {job_id} |-> completed], db |-> table,
              out |-> {}]
        ELSE LET e == CHOOSE o \in outputs : TRUE
                 saved == Saved([completed EXCEPT !.results = exe_table[e].output])
             IN  [raised |-> (batch = "fails"), mem |-> [j \in {job_id} |-> saved],
                  db |-> Update(table, [j \in {job_id} |-> saved]), out |-> {job_id}]

\* The instance is changed first; the query for the output then evaluates
\* job.exe_num, which class Job does not define: AttributeError, before
\* job.results is assigned and before job.save() is reached.  A query that
\* finds no row, or several, raises as well.  After job.save() the batch
\* counters are notified: a job in no batch (BatchJob.DoesNotExist) is
\* passed over, any other failure of the notification leaves the function
\* as an exception, the saved row staying as written.
complete_job(table, exe_table, job_id, job, when, batch) ==
    LET completed == [job EXCEPT !.status = "COMPLETED", !.ended = when,
                                 !.last_status_change = when]
        has_exe_num == "exe_num" \in DOMAIN job
        outputs == IF has_exe_num THEN get_output(exe_table, job_id, job.exe_num) ELSE {}
    IN  IF ~has_exe_num \/ Cardinality(outputs) # 1
        THEN [raised |-> TRUE, mem |-> [j \in {job_id} |-> completed], db |-> table,
              out |-> {}]
        ELSE LET e == CHOOSE o \in outputs : TRUE
                 saved == Saved([completed EXCEPT !.results = exe_table[e].output])
             IN  [raised |-> (batch = "fails"), mem |-> [j \in {job_id} |-> saved],
                  db |-> Update(table, [j \in {job_id} |-> saved]), out |-> {job_id}]

CompleteJob ==
    \E j \in JobIds, when \in Whens, batch \in BatchNotifications :
        LET r == complete_job(db, exe_db, j, db[j], when, batch)
        IN  /\ db' = StoredAll(r.db)
            /\ mem' = StoredAll(r.mem)
            /\ last' = Call("complete_job", {j}, "COMPLETED", when, NoError, j, r.raised, r.out)
            /\ UNCHANGED <<exe_db, scope, txn, job_types, job_type_revs, updater,
                           resources, error_db, cached_errors, exe_mem>>

\* ------------------------------------------------------ supersede_jobs
\* supersede_jobs handing update_status the wrong final status
supersede_jobs_completing(table, jobs, when) ==
    LET job_ids == DOMAIN jobs
        marked == [j \in job_ids |-> [jobs[j] EXCEPT !.is_superseded = TRUE,
                                                     !.superseded = when,
                                                     !.last_modified = Now]]
        jobs_to_cancel == {j \in job_ids : jobs[j].status \in {"PENDING", "BLOCKED"}}
        Set(row) == [row EXCEPT !.is_superseded = TRUE, !.superseded = when,
                                !.last_modified = Now]
        table1 == Update(table, [j \in job_ids |-> Set(table[j])])
        r == update_status(table1, [j \in jobs_to_cancel |-> marked[j]], "COMPLETED",
                           when, NoError)
    IN  IF jobs_to_cancel = {}
        THEN [raised |-> FALSE, mem |-> marked, db |-> table1, out |-> {}]
        ELSE [raised |-> r.raised,
              mem |-> [j \in job_ids |-> IF j \in jobs_to_cancel THEN r.mem[j] ELSE marked[j]],
              db |-> r.db,
              out |-> jobs_to_cancel]

\* the first UPDATE of supersede_jobs, and the jobs of the follow-up cancel
supersede_jobs_update(row, when) ==
    [row EXCEPT !.is_superseded = TRUE, !.superseded = when, !.last_modified = Now]

\* the follow-up cancel taking the QUEUED jobs as well
supersede_jobs_to_cancel_queued_too(jobs) ==
    {j \in DOMAIN jobs : jobs[j].status \in {"PENDING", "BLOCKED", "QUEUED"}}

supersede_jobs_to_cancel(jobs) ==
    {j \in DOMAIN jobs : jobs[j].status \in {"PENDING", "BLOCKED"}}

supersede_jobs(table, jobs, when) ==
    LET job_ids == DOMAIN jobs
        marked == [j \in job_ids |-> [jobs[j] EXCEPT !.is_superseded = TRUE,
                                                     !.superseded = when,
                                                     !.last_modified = Now]]
        jobs_to_cancel == supersede_jobs_to_cancel(jobs)
        Set(row) == supersede_jobs_update(row, when)
        table1 == Update(table, [j \in job_ids |-> Set(table[j])])
        r == update_status(table1, [j \in jobs_to_cancel |-> marked[j]], "CANCELED",
                           when, NoError)
    IN  IF jobs_to_cancel = {}
        THEN [raised |-> FALSE, mem |-> marked, db |-> table1, out |-> {}]
        ELSE [raised |-> r.raised,
              mem |-> [j \in job_ids |-> IF j \in jobs_to_cancel THEN r.mem[j] ELSE marked[j]],
              db |-> r.db,
              out |-> jobs_to_cancel]

SupersedeJobs ==
    \E batch \in Batches, when \in Whens :
        LET r == supersede_jobs(db, get_locked_jobs(batch), when)
        IN  /\ db' = StoredAll(r.db)
            /\ mem' = StoredAll(r.mem)
            /\ last' = Call("supersede_jobs", batch, "CANCELED", when, NoError, 0, r.raised, r.out)
            /\ UNCHANGED <<exe_db, scope, txn, job_types, job_type_revs, updater,
                           resources, error_db, cached_errors, exe_mem>>

\* --------------------------------------------- update_jobs_to_canceled
update_jobs_to_canceled(table, job_ids, when) ==
    LET locked == [j \in (job_ids \cap (1..Len(table))) |-> table[j]]
        jobs_to_update == {j \in DOMAIN locked : can_be_canceled(locked[j])}
        Set(row) == [row EXCEPT !.status = "CANCELED", !.last_status_change = when,
                                !.last_modified = Now]
    IN  [raised |-> FALSE, mem |-> NoModels,
         db |-> Update(table, [j \in jobs_to_update |-> Set(table[j])]), out |-> jobs_to_update]

UpdateJobsToCanceled ==
    \E job_ids \in Batches, when \in Whens :
        LET r == update_jobs_to_canceled(db, job_ids, when)
        IN  /\ db' = StoredAll(r.db)
            /\ mem' = StoredAll(r.mem)
            /\ last' = Call("update_jobs_to_canceled", job_ids, "CANCELED", when, NoError, 0,
                            r.raised, r.out)
            /\ UNCHANGED <<exe_db, scope, txn, job_types, job_type_revs, updater,
                           resources, error_db, cached_errors, exe_mem>>

\* ---------------------------------------------- update_jobs_to_running
\* `jobs` maps job id -> execution number.  The loop body starts by
\* evaluating locked_job.exe_num, which class Job does not define: the first
\* locked row raises AttributeError and the atomic block rolls back.
\* update_jobs_to_running updating the timing of jobs whose execution number
\* is not the given one, and setting RUNNING on QUEUED jobs whose number is
update_jobs_to_running_timing(table, jobs, when) ==
    LET locked == [j \in (DOMAIN jobs \cap (1..Len(table))) |-> table[j]]
        current == {j \in DOMAIN locked : locked[j].num_exes = jobs[j]}
        jobs_to_update == {j \in current : locked[j].status = "QUEUED"}
        SetRunning(row) == [row EXCEPT !.status = "RUNNING", !.last_status_change = when,
                                       !.started = when, !.last_modified = Now]
        SetTiming(row) == [row EXCEPT !.started = when, !.last_modified = Now]
    IN  [raised |-> FALSE, mem |-> NoModels,
         db |-> Update(Update(table, [j \in jobs_to_update |-> SetRunning(table[j])]),
                       [j \in (DOMAIN locked \ jobs_to_update) |-> SetTiming(table[j])]),
         out |-> jobs_to_update]

\* update_jobs_to_running trusting its caller: every given job is set RUNNING,
\* the status and execution number of the locked row are not looked at
update_jobs_to_running_unchecked(table, jobs, when) ==
    LET locked == [j \in (DOMAIN jobs \cap (1..Len(table))) |-> table[j]]
        SetRunning(row) == [row EXCEPT !.status = "RUNNING", !.last_status_change = when,
                                       !.started = when, !.last_modified = Now]
    IN  [raised |-> FALSE, mem |-> NoModels,
         db |-> Update(table, [j \in DOMAIN locked |-> SetRunning(table[j])]),
         out |-> DOMAIN locked]

update_jobs_to_running(table, jobs, when) ==
    LET locked == [j \in (DOMAIN jobs \cap (1..Len(table))) |-> table[j]]
    IN  [raised |-> DOMAIN locked # {}, mem |-> NoModels, db |-> table, out |-> {}]

ExeNumMaps == UNION {[batch -> 1..MaxExes] : batch \in Batches}

UpdateJobsToRunning ==
    \E jobs \in ExeNumMaps, when \in Whens :
        LET r == update_jobs_to_running(db, jobs, when)
        IN  /\ db' = StoredAll(r.db)
            /\ mem' = StoredAll(r.mem)
            /\ last' = Call("update_jobs_to_running", DOMAIN jobs, "RUNNING", when, NoError,
                            [exe_nums |-> jobs, when |-> when], r.raised, r.out)
            /\ UNCHANGED <<exe_db, scope, txn, job_types, job_type_revs, updater,
                           resources, error_db, cached_errors, exe_mem>>

\* ------------------------------------------------- increment_max_tries
increment_max_tries(table, jobs) ==
    LET Set(row) == [row EXCEPT !.max_tries = row.num_exes + 1, !.last_modified = Now]
    IN  [raised |-> FALSE,
         mem |-> [j \in DOMAIN jobs |-> [jobs[j] EXCEPT !.max_tries = jobs[j].num_exes + 1,
                                                        !.last_modified = Now]],
         db |-> Update(table, [j \in DOMAIN jobs |-> Set(table[j])]),
         out |-> DOMAIN jobs]

IncrementMaxTries ==
    \E batch \in Batches :
        LET r == increment_max_tries(db, get_locked_jobs(batch))
        IN  /\ db' = StoredAll(r.db)
            /\ mem' = StoredAll(r.mem)
            /\ last' = Call("increment_max_tries", batch, "", NoTime, NoError, 0, r.raised, r.out)
            /\ UNCHANGED <<exe_db, scope, txn, job_types, job_type_revs, updater,
                           resources, error_db, cached_errors, exe_mem>>

\* --------------------------------------------------- populate_job_data
\* math.ceil(n / d), d > 0
Ceil(n, d) == 0 - ((0 - n) \div d)
Max(a, b) == IF a < b THEN b ELSE a

\* math.ceil(multiplier * size + const), the multiplier in halves
required_mb(multiplier, size, const) == Ceil(multiplier * size + MultUnit * const, MultUnit)

\* the row of job.job_type (the default type where the column is not stored)
JobTypeOf(job) ==
    IF job.job_type \in JobTypeIds THEN job_types[job.job_type] ELSE NewJobType

\* the sizes in bytes of the input files of the data
InputSizes ==
    IF SizeColumns \subseteq scope.columns THEN {0, 1, MiB, MiB + 1, 10 * MiB} ELSE {0}

\* valid: whether interface.validate_data(data) accepts the data;
\* input_size_bytes: the sum of the sizes of its input files
populate_job_data(table, job_id, job, valid, job_type, input_size_bytes) ==
    LET input_size_mb == Ceil(input_size_bytes, MiB)
        output_size_mb == required_mb(job_type.disk_out_mult_required, input_size_mb,
                                      job_type.disk_out_const_required)
        Set(row) == [row EXCEPT !.data = TRUE,
                                !.disk_in_required = Max(input_size_mb, MIN_DISK),
                                !.disk_out_required = Max(output_size_mb, MIN_DISK),
                                !.last_modified = Now]
    IN  IF ~valid
        THEN [raised |-> TRUE, mem |-> [j \in {job_id} |-> job], db |-> table, out |-> {}]
        ELSE [raised |-> FALSE,
              mem |-> [j \in {job_id} |-> Set(job)],
              db |-> Update(table, [j \in {job_id} |-> Set(table[j])]),
              out |-> {job_id}]

PopulateJobData ==
    \E j \in JobIds, valid \in BOOLEAN, input_size_bytes \in InputSizes :
        LET r == populate_job_data(db, j, db[j], valid, JobTypeOf(db[j]), input_size_bytes)
        IN  /\ db' = StoredAll(r.db)
            /\ mem' = StoredAll(r.mem)
            /\ last' = Call("populate_job_data", {j}, "", NoTime, NoError,
                            input_size_bytes, r.raised, r.out)
            /\ UNCHANGED <<exe_db, scope, txn, job_types, job_type_revs, updater,
                           resources, error_db, cached_errors, exe_mem>>

\* ------------------------------------------------------- job executions
\* A string is the sequence of its characters.  cluster_id is nullable and
\* may be blank; `not self.cluster_id` holds of null and of '' alike, and
\* one value stands for both.
NoClusterId == <<>>

\* JobExecution(): the field defaults of the model class
NewJobExe(job_id, exe_num, when) ==
    [job |-> job_id, exe_num |-> exe_num, status |-> "None", error |-> NoError,
     queued |-> when, ended |-> NoTime, last_modified |-> NoTime,
     results |-> NoResults, cluster_id |-> NoClusterId,
     \* its job_exe_end row (0: none) and its job_exe_output row (0: none)
     end_exe_num |-> NoOutput, end_status |-> "None",
     output_exe_num |-> NoOutput, output |-> NoResults]

\* An execution row is created for a job that has been queued.
CreateJobExe ==
    \E j \in JobIds, when \in Whens :
        /\ Len(exe_db) < scope.exes
        /\ db[j].status = "QUEUED"
        /\ \A e \in ExeIds : ~(exe_db[e].job = j /\ exe_db[e].exe_num = db[j].num_exes)
        /\ exe_db' = Append(exe_db, NewJobExe(j, db[j].num_exes, when))
        /\ mem' = NoModels
        /\ last' = Call("create_job_exe", {j}, "", when, NoError, 0, FALSE, {Len(exe_db) + 1})
        /\ UNCHANGED <<db, scope, txn, job_types, job_type_revs, updater,
                       resources, error_db, cached_errors, exe_mem>>

\* JobExecutionManager.update_status without the check that rejects RUNNING
exe_update_status_running_allowed(table, exe_table, job_exes, status, when, error) ==
    IF \/ status = "QUEUED"
       \/ (status = "FAILED" /\ error = NoError)
       \/ (status # "FAILED" /\ error # NoError)
    THEN [raised |-> TRUE, mem |-> NoModels, db |-> table, exe_db |-> exe_table, out |-> {}]
    ELSE LET jobs == [j \in {exe_table[e].job : e \in job_exes} |-> table[j]]
             r == update_status(table, jobs, status, when, error)
         IN  [raised |-> r.raised, mem |-> r.mem, db |-> r.db,
              exe_db |-> [e \in 1..Len(exe_table) |->
                             IF e \in job_exes
                             THEN [exe_table[e] EXCEPT !.status = status, !.ended = when,
                                                       !.error = error, !.last_modified = Now]
                             ELSE exe_table[e]],
              out |-> r.out]

\* JobExecutionManager.update_status: its checks, and its UPDATE of job_exe
exe_update_status_invalid(status, error) ==
    \/ status = "QUEUED"
    \/ status = "RUNNING"
    \/ (status = "FAILED" /\ error = NoError)
    \/ (status # "FAILED" /\ error # NoError)

\* the UPDATE of job_exe without its error column
exe_update_status_update_without_error(exe_table, job_exes, status, when, error) ==
    [e \in 1..Len(exe_table) |->
        IF e \in job_exes
        THEN [exe_table[e] EXCEPT !.status = status, !.ended = when, !.last_modified = Now]
        ELSE exe_table[e]]

exe_update_status_update(exe_table, job_exes, status, when, error) ==
    [e \in 1..Len(exe_table) |->
        IF e \in job_exes
        THEN [exe_table[e] EXCEPT !.status = status, !.ended = when,
                                  !.error = error, !.last_modified = Now]
        ELSE exe_table[e]]

\* JobExecutionManager.update_status: the executions, then their jobs
exe_update_status(table, exe_table, job_exes, status, when, error) ==
    IF exe_update_status_invalid(status, error)
    THEN [raised |-> TRUE, mem |-> NoModels, db |-> table, exe_db |-> exe_table, out |-> {}]
    ELSE LET jobs == [j \in {exe_table[e].job : e \in job_exes} |-> table[j]]
             r == update_status(table, jobs, status, when, error)
         IN  [raised |-> r.raised, mem |-> r.mem, db |-> r.db,
              exe_db |-> exe_update_status_update(exe_table, job_exes, status, when, error),
              out |-> r.out]

ExeUpdateStatus ==
    \E job_exes \in ExeBatches, status \in JOB_STATUSES, when \in Whens,
       error \in {NoError} \cup Errors :
        LET r == exe_update_status(db, exe_db, job_exes, status, when, error)
        IN  /\ db' = StoredAll(r.db)
            /\ exe_db' = r.exe_db
            /\ mem' = StoredAll(r.mem)
            /\ last' = Call("exe_update_status", r.out, status, when, error,
                            [status |-> status, error |-> error, given |-> job_exes],
                            r.raised, r.out)
            /\ UNCHANGED <<scope, txn, job_types, job_type_revs, updater,
                           resources, error_db, cached_errors, exe_mem>>

\* queue_job_exes: the jobs that are not QUEUED are skipped; for the first
\* QUEUED job the loop evaluates job.configuration, which class Job does not
\* define: AttributeError, before bulk_create.  The rows it would create set
\* neither status nor exe_num, and the list returned is re-read from the
\* table by job and status QUEUED.
queue_job_exes(table, exe_table, jobs, when) ==
    LET queued == {j \in DOMAIN jobs : jobs[j].status = "QUEUED"}
        has_configuration == \A j \in queued : "configuration" \in DOMAIN jobs[j]
        rank(j) == Cardinality({k \in queued : k <= j})
        created == [e \in 1..(Len(exe_table) + Cardinality(queued)) |->
                       IF e <= Len(exe_table)
                       THEN exe_table[e]
                       ELSE NewJobExe(CHOOSE j \in queued : rank(j) = e - Len(exe_table),
                                      NoExeNum, when)]
    IN  IF queued = {}
        THEN [raised |-> FALSE, exe_db |-> exe_table, out |-> {}]
        ELSE IF ~has_configuration
        THEN [raised |-> TRUE, exe_db |-> exe_table, out |-> {}]
        ELSE [raised |-> FALSE, exe_db |-> created,
              out |-> {e \in DOMAIN created : /\ created[e].job \in queued
                                               /\ created[e].status = "QUEUED"}]

QueueJobExes ==
    \E batch \in Batches, when \in Whens :
        LET r == queue_job_exes(db, exe_db, get_locked_jobs(batch), when)
        IN  /\ Len(r.exe_db) <= scope.exes
            /\ exe_db' = r.exe_db
            /\ mem' = NoModels
            /\ last' = [Call("queue_job_exes", batch, "", when, NoError,
                             [given |-> batch, pre_exe |-> exe_db], r.raised, r.out)
                        EXCEPT !.jobs = batch]
            /\ UNCHANGED <<db, scope, txn, job_types, job_type_revs, updater,
                           resources, error_db, cached_errors, exe_mem>>

\* A caller queues jobs and creates the executions of the jobs returned.
\* Neither method opens a transaction of its own: when queue_job_exes raises,
\* the UPDATE of queue_jobs stays, unless the caller runs both in an atomic
\* block, which then rolls back.
QueueJobsThenExes ==
    \E batch \in Batches, when \in Whens, atomic \in BOOLEAN :
        LET jobs == get_locked_jobs(batch)
            q == queue_jobs(db, jobs, when, NoPriority)
            r == queue_job_exes(q.db, exe_db, [j \in q.out |-> q.mem[j]], when)
        IN  /\ \A j \in jobs_to_queue(jobs) : db[j].num_exes < MaxExes
            /\ Len(r.exe_db) <= scope.exes
            /\ db' = IF r.raised /\ atomic THEN db ELSE StoredAll(q.db)
            /\ exe_db' = r.exe_db
            /\ mem' = StoredAll(q.mem)
            /\ last' = [Call("queue_jobs_then_exes", batch, "QUEUED", when, NoError,
                             [given |-> batch, atomic |-> atomic], r.raised, q.out)
                        EXCEPT !.jobs = batch]
            /\ UNCHANGED <<scope, txn, job_types, job_type_revs, updater,
                           resources, error_db, cached_errors, exe_mem>>

\* post_steps_results: the results of an execution, named after it
PostStepsResults ==
    \E e \in ExeIds : \E results \in {NoResults, e} :
        /\ exe_db' = IF results = NoResults
                     THEN exe_db
                     ELSE [exe_db EXCEPT ![e].results = results, ![e].last_modified = Now]
        /\ mem' = NoModels
        /\ last' = Call("post_steps_results", {}, "", NoTime, NoError, e,
                        results = NoResults, {e})
        /\ UNCHANGED <<db, scope, txn, job_types, job_type_revs, updater,
                       resources, error_db, cached_errors, exe_mem>>

\* ---------------------------------------------------- DatabaseUpdater
\* DatabaseUpdater(): running, nothing updated, nothing counted
NewUpdater == [pc |-> "idle", running |-> TRUE, updated |-> 0, total |-> 0]

\* the executions that still have a status
with_status(exe_table) == {e \in 1..Len(exe_table) : exe_table[e].status # "None"}

\* the executions of an iteration that get a job_exe_end row
updater_ends(exe_table, job_ids) ==
    {e \in 1..Len(exe_table) : /\ exe_table[e].job \in job_ids
                                /\ exe_table[e].status \in FINAL_STATUSES}

\* the executions of an iteration that get a job_exe_output row, were one
\* made for every execution that has ended
updater_outputs_of_ended(exe_table, job_ids) ==
    {e \in 1..Len(exe_table) : /\ exe_table[e].job \in job_ids
                                /\ exe_table[e].status \in FINAL_STATUSES}

\* the executions of an iteration that get a job_exe_output row
updater_outputs(exe_table, job_ids) ==
    {e \in 1..Len(exe_table) : /\ exe_table[e].job \in job_ids
                                /\ exe_table[e].status = "COMPLETED"}

\* the numbering of an iteration that counts every execution of the table
current_exe_num_of_table(exe_table, e) == e

\* current_exe_num: the executions of a job counted in id order
current_exe_num(exe_table, e) ==
    Cardinality({f \in 1..Len(exe_table) : exe_table[f].job = exe_table[e].job /\ f <= e})

\* where a failure that is not of the iteration's making (the connection,
\* the process) strikes its transaction: nowhere, or at one of its statements
UpdaterFailures == {"none", "update", "ends", "outputs"}

\* the statements of the transaction that ran before the one that failed
updater_statements_before(fails_at) ==
    CASE fails_at = "update" -> {}
      [] fails_at = "ends" -> {"update"}
      [] fails_at = "outputs" -> {"update", "ends"}
      [] OTHER -> {"update", "ends", "outputs"}

\* the table after the statements `done` of an iteration: the UPDATEs that
\* number every execution of the page's jobs and set its old columns to
\* null, the job_exe_end rows, the job_exe_output rows
updater_written(exe_table, job_ids, done) ==
    LET ends == updater_ends(exe_table, job_ids)
        outputs == updater_outputs(exe_table, job_ids)
    IN  [e \in 1..Len(exe_table) |->
           IF exe_table[e].job \notin job_ids
           THEN exe_table[e]
           ELSE LET updated ==
                        IF "update" \in done
                        THEN [exe_table[e] EXCEPT
                                !.exe_num = current_exe_num(exe_table, e),
                                !.status = "None", !.error = NoError,
                                !.results = NoResults, !.ended = NoTime,
                                !.last_modified = NoTime]
                        ELSE exe_table[e]
                    ended ==
                        IF "ends" \in done /\ e \in ends
                        THEN [updated EXCEPT
                                !.end_exe_num = current_exe_num(exe_table, e),
                                !.end_status = exe_table[e].status]
                        ELSE updated
                IN  IF "outputs" \in done /\ e \in outputs
                    THEN [ended EXCEPT
                            !.output_exe_num = current_exe_num(exe_table, e),
                            !.output = exe_table[e].results]
                    ELSE ended]

\* the statement an iteration fails at: the one the failure strikes, or the
\* bulk_create that finds a row of the same execution (primary key)
updater_fails_at(exe_table, job_ids, failure) ==
    IF failure = "update" THEN "update"
    ELSE IF \/ failure = "ends"
            \/ \E e \in updater_ends(exe_table, job_ids) :
                  exe_table[e].end_exe_num # NoOutput
    THEN "ends"
    ELSE IF \/ failure = "outputs"
            \/ \E e \in updater_outputs(exe_table, job_ids) :
                  exe_table[e].output_exe_num # NoOutput
    THEN "outputs"
    ELSE "none"

\* _perform_update_iteration writing its statements one by one, outside of
\* a transaction
perform_update_iteration_unguarded(exe_table, page, failure) ==
    LET job_ids == {exe_table[e].job : e \in page}
        fails_at == updater_fails_at(exe_table, job_ids, failure)
    IN  [raised |-> fails_at # "none",
         exe_db |-> updater_written(exe_table, job_ids, updater_statements_before(fails_at)),
         count |-> Cardinality({e \in 1..Len(exe_table) : exe_table[e].job \in job_ids}),
         out |-> job_ids]

\* _perform_update_iteration on a page of executions that have a status:
\* all executions of their jobs are numbered in id order; those COMPLETED,
\* FAILED or CANCELED get a job_exe_end row, those COMPLETED a job_exe_output
\* row with their results; their old columns are then set to null.  The
\* statements run inside `with transaction.atomic()`: when one fails (a
\* second row for the same execution violates the primary key) nothing is
\* written.  `count` is what the iteration adds to _updated_job_exe.
perform_update_iteration(exe_table, page, failure) ==
    LET job_ids == {exe_table[e].job : e \in page}
        fails_at == updater_fails_at(exe_table, job_ids, failure)
    IN  [raised |-> fails_at # "none",
         exe_db |-> IF fails_at # "none"
                    THEN exe_table
                    ELSE updater_written(exe_table, job_ids, {"update", "ends", "outputs"}),
         count |-> Cardinality({e \in 1..Len(exe_table) : exe_table[e].job \in job_ids}),
         out |-> job_ids]

\* one iteration on a table whose executions with a status fit in a page
PerformUpdateIteration ==
  \E failure \in UpdaterFailures :
    LET r == perform_update_iteration(exe_db, with_status(exe_db), failure)
    IN  /\ \E e \in ExeIds : exe_db[e].status # "None"
        /\ exe_db' = r.exe_db
        /\ mem' = NoModels
        /\ last' = Call("perform_update_iteration", r.out, "", NoTime, NoError, 0,
                        r.raised, r.out)
        /\ UNCHANGED <<db, scope, txn, job_types, job_type_revs, updater,
                       resources, error_db, cached_errors, exe_mem>>

\* ------------------------------------------------- database transactions
\* A worker runs a manager call inside an atomic transaction: it takes its
\* row locks (select_for_update), runs the call's UPDATE statements, which
\* stay private to the transaction, and commits or rolls back.
Workers == 1..Len(txn.of)

NoArgs == [status |-> "", when |-> NoTime, error |-> NoError, exe_nums |-> NoModels]

IdleTxn ==
    [pc |-> "idle", op |-> "", ids |-> <<>>, exe |-> NoId, a |-> NoArgs,
     held_exe |-> FALSE, held |-> {}, k |-> 0, done |-> FALSE,
     writes |-> NoModels, exe_writes |-> NoModels, seen |-> <<>>]

Range(seq) == {seq[i] : i \in 1..Len(seq)}

\* the lists of distinct job ids a caller may pass, in any order
IdLists ==
    {ids \in UNION {[1..n -> JobIds] : n \in 1..Len(db)} :
        \A i, k \in 1..Len(ids) : i # k => ids[i] # ids[k]}

RECURSIVE Ascending(_)
Ascending(ids) ==
    IF ids = {}
    THEN <<>>
    ELSE LET least == CHOOSE i \in ids : \A k \in ids : i <= k
         IN  <<least>> \o Ascending(ids \ {least})

\* locking the rows in the order the ids are given
LockOrderAsGiven(job_ids) == job_ids

\* select_for_update().filter(id__in=job_ids).order_by('id'): the order in
\* which lock_jobs / get_locked_jobs take the row locks
LockOrder(job_ids) == Ascending(Range(job_ids) \cap JobIds)

JobLockHolders(j) == {u \in Workers : j \in txn.of[u].held}
ExeLockHolders(e) == {u \in Workers : txn.of[u].held_exe /\ txn.of[u].exe = e}

\* what the worker's transaction sees: the committed rows under its own writes
View(t) ==
    [j \in 1..Len(db) |-> IF j \in DOMAIN txn.of[t].writes THEN txn.of[t].writes[j] ELSE db[j]]
ExeView(t) ==
    [e \in 1..Len(exe_db) |->
        IF e \in DOMAIN txn.of[t].exe_writes THEN txn.of[t].exe_writes[e] ELSE exe_db[e]]

\* the table a transaction leaves keeping its writes after a failure too
transaction_end_without_rollback(table, writes, committed) ==
    [j \in 1..Len(table) |-> IF j \in DOMAIN writes THEN writes[j] ELSE table[j]]

\* the table a transaction leaves: its writes on commit, nothing on rollback
transaction_end(table, writes, committed) ==
    IF committed
    THEN [j \in 1..Len(table) |-> IF j \in DOMAIN writes THEN writes[j] ELSE table[j]]
    ELSE table

\* the calls a worker may start: the ids it passes, the execution it locks
\* first (if any) and the other arguments
TxnCalls(op) ==
    CASE op = "lock_jobs" ->
           {[ids |-> ids, exe |-> e, a |-> NoArgs] : ids \in IdLists, e \in {NoId} \cup ExeIds}
      [] op = "queue_jobs" ->
           {[ids |-> ids, exe |-> NoId, a |-> [NoArgs EXCEPT !.when = w]] :
               ids \in IdLists, w \in Whens}
      [] op = "update_status" ->
           {[ids |-> ids, exe |-> NoId,
             a |-> [NoArgs EXCEPT !.status = s, !.when = w, !.error = err]] :
               ids \in IdLists, s \in JOB_STATUSES, w \in Whens, err \in {NoError} \cup Errors}
      [] op = "supersede_jobs" ->
           {[ids |-> ids, exe |-> NoId, a |-> [NoArgs EXCEPT !.when = w]] :
               ids \in IdLists, w \in Whens}
      [] op = "exe_update_status" ->
           {[ids |-> <<exe_db[e].job>>, exe |-> e,
             a |-> [NoArgs EXCEPT !.status = s, !.when = w, !.error = err]] :
               e \in ExeIds, s \in JOB_STATUSES, w \in Whens, err \in {NoError} \cup Errors}
      [] op = "update_jobs_to_canceled" ->
           {[ids |-> ids, exe |-> NoId, a |-> [NoArgs EXCEPT !.when = w]] :
               ids \in IdLists, w \in Whens}
      [] op = "update_jobs_to_running" ->
           UNION {{[ids |-> ids, exe |-> NoId,
                    a |-> [NoArgs EXCEPT !.when = w, !.exe_nums = m]] :
                       m \in [Range(ids) -> 1..MaxExes], w \in Whens} : ids \in IdLists}

\* transactions in progress that will queue job j
Queueing(j) ==
    {u \in Workers : txn.of[u].pc # "idle" /\ txn.of[u].op = "queue_jobs"
                     /\ j \in Range(txn.of[u].ids)}

TxnBegin(t) ==
    /\ txn.of[t].pc = "idle"
    /\ txn.begun < scope.runs
    /\ \E op \in scope.ops : \E c \in TxnCalls(op) :
          /\ op = "queue_jobs" =>
                \A j \in Range(c.ids) : db[j].num_exes + Cardinality(Queueing(j)) < MaxExes
          /\ txn' = [of |-> [txn.of EXCEPT ![t] =
                                [IdleTxn EXCEPT !.pc = "locking", !.op = op, !.ids = c.ids,
                                                !.exe = c.exe, !.a = c.a,
                                                !.seen = IF op = "update_jobs_to_running"
                                                         THEN db ELSE <<>>]],
                     begun |-> txn.begun + 1]
    /\ UNCHANGED <<db, exe_db, mem, last, scope, job_types, job_type_revs, updater,
                   resources, error_db, cached_errors, exe_mem>>

\* get_locked_job_exe: the execution's row lock, before any job's
TxnLockExe(t) ==
    /\ txn.of[t].pc = "locking"
    /\ txn.of[t].exe # NoId
    /\ ~txn.of[t].held_exe
    /\ ExeLockHolders(txn.of[t].exe) = {}
    /\ txn' = [txn EXCEPT !.of[t].held_exe = TRUE]
    /\ UNCHANGED <<db, exe_db, mem, last, scope, job_types, job_type_revs, updater,
                   resources, error_db, cached_errors, exe_mem>>

\* the job row a transaction locks next, NoId once it holds them all
NextJobLock(t) ==
    LET order == LockOrder(txn.of[t].ids)
        n == Cardinality(txn.of[t].held)
    IN  IF n < Len(order) THEN order[n + 1] ELSE NoId

ExeLocked(t) == txn.of[t].exe = NoId \/ txn.of[t].held_exe
Locked(t) == txn.of[t].pc = "locking" /\ ExeLocked(t) /\ NextJobLock(t) = NoId

\* lock_jobs / get_locked_jobs: one more row lock, waiting while it is taken
TxnLockJob(t) ==
    /\ txn.of[t].pc = "locking"
    /\ ExeLocked(t)
    /\ NextJobLock(t) # NoId
    /\ JobLockHolders(NextJobLock(t)) = {}
    /\ txn' = [txn EXCEPT !.of[t].held = @ \cup {NextJobLock(t)}]
    /\ UNCHANGED <<db, exe_db, mem, last, scope, job_types, job_type_revs, updater,
                   resources, error_db, cached_errors, exe_mem>>

\* The next statement of a call, run on the tables the transaction sees
\* after its first k statements; `more`: statements remain.
Statement(op, k, table, exe_table, ids, exe, a) ==
    LET jobs == [j \in (Range(ids) \cap (1..Len(table))) |-> table[j]]
        One(r) == [raised |-> r.raised, db |-> r.db, exe_db |-> exe_table, mem |-> r.mem,
                   more |-> FALSE]
    IN  CASE op = "queue_jobs" -> One(queue_jobs(table, jobs, a.when, NoPriority))
          [] op = "update_status" -> One(update_status(table, jobs, a.status, a.when, a.error))
          [] op = "update_jobs_to_canceled" ->
               One(update_jobs_to_canceled(table, Range(ids), a.when))
          [] op = "update_jobs_to_running" ->
               One(update_jobs_to_running(table, a.exe_nums, a.when))
          [] op = "supersede_jobs" ->
               LET to_cancel == supersede_jobs_to_cancel(jobs)
                   Set(row) == supersede_jobs_update(row, a.when)
               IN  IF k = 0
                   THEN [raised |-> FALSE,
                         db |-> Update(table, [j \in DOMAIN jobs |-> Set(table[j])]),
                         exe_db |-> exe_table,
                         mem |-> [j \in DOMAIN jobs |-> Set(jobs[j])],
                         more |-> to_cancel # {}]
                   ELSE One(update_status(table, [j \in to_cancel |-> jobs[j]], "CANCELED",
                                          a.when, NoError))
          [] op = "exe_update_status" ->
               IF k = 0
               THEN [raised |-> exe_update_status_invalid(a.status, a.error), db |-> table,
                     exe_db |-> exe_update_status_update(exe_table, {exe}, a.status, a.when,
                                                         a.error),
                     mem |-> NoModels, more |-> TRUE]
               ELSE One(update_status(table, [j \in {exe_table[exe].job} |-> table[j]],
                                      a.status, a.when, a.error))

\* what is recorded of a transaction that ended
TxnCall(t, k, committed) ==
    Call(txn.of[t].op, Range(txn.of[t].ids), txn.of[t].a.status, txn.of[t].a.when,
         txn.of[t].a.error,
         [exe_nums |-> txn.of[t].a.exe_nums, when |-> txn.of[t].a.when,
          seen |-> txn.of[t].seen, ids |-> txn.of[t].ids, exe |-> txn.of[t].exe,
          a |-> txn.of[t].a, k |-> k, pre_exe |-> exe_db],
         ~committed, IF committed THEN DOMAIN txn.of[t].writes ELSE {})

\* the transaction is over: its writes are published or dropped, its locks go
TxnEnd(t, k, committed) ==
    /\ db' = StoredAll(transaction_end(db, txn.of[t].writes, committed))
    /\ exe_db' = transaction_end(exe_db, txn.of[t].exe_writes, committed)
    /\ last' = TxnCall(t, k, committed)
    /\ txn' = [txn EXCEPT !.of[t] = IdleTxn]

\* one statement of the call; an exception leaves the atomic block, which
\* rolls back
TxnStatement(t) ==
    /\ Locked(t)
    /\ txn.of[t].op # "lock_jobs"
    /\ ~txn.of[t].done
    /\ LET w == txn.of[t]
           s == Statement(w.op, w.k, View(t), ExeView(t), w.ids, w.exe, w.a)
       IN  /\ mem' = StoredAll(s.mem)
           /\ IF s.raised
              THEN TxnEnd(t, w.k, FALSE)
              ELSE /\ txn' = [txn EXCEPT
                                 !.of[t].writes = [j \in w.held |-> Stored(s.db[j])],
                                 !.of[t].exe_writes =
                                     [e \in (IF w.held_exe THEN {w.exe} ELSE {}) |-> s.exe_db[e]],
                                 !.of[t].k = w.k + 1,
                                 !.of[t].done = ~s.more]
                   /\ UNCHANGED <<db, exe_db, last>>
    /\ UNCHANGED <<scope, job_types, job_type_revs, updater, resources, error_db, cached_errors,
                   exe_mem>>

\* the end of the atomic block
TxnCommit(t) ==
    /\ Locked(t)
    /\ txn.of[t].op = "lock_jobs" \/ txn.of[t].done
    /\ TxnEnd(t, txn.of[t].k, TRUE)
    /\ UNCHANGED <<mem, scope, job_types, job_type_revs, updater,
                   resources, error_db, cached_errors, exe_mem>>

\* a failure at any point of the transaction (a database error, a lost
\* connection, the process dying): the database rolls the transaction back
TxnFail(t) ==
    /\ txn.of[t].pc # "idle"
    /\ TxnEnd(t, txn.of[t].k, FALSE)
    /\ UNCHANGED <<mem, scope, job_types, job_type_revs, updater,
                   resources, error_db, cached_errors, exe_mem>>

InitIn(sc) ==
    /\ db = <<>>
    /\ exe_db = <<>>
    /\ mem = NoModels
    /\ last = [op |-> "init", jobs |-> {}, status |-> "", when |-> NoTime,
               error |-> NoError, arg |-> 0, raised |-> FALSE, out |-> {}, pre |-> <<>>]
    /\ scope = sc
    /\ txn = NoTxns
    /\ job_types = PreparedTypes.job_types
    /\ job_type_revs = PreparedTypes.job_type_revs
    /\ updater = NewUpdater
    /\ resources = NoResources
    /\ error_db = <<>>
    /\ cached_errors = NoCachedErrors
    /\ exe_mem = <<>>

\* Jobs and their executions through every operation, on the columns that
\* decide control flow and on `started` and `ended`
Init == InitIn([jobs |-> NumJobs, exes |-> MaxJobExes, whens |-> Times,
                columns |-> CoreColumns \cup {"started", "ended"},
                workers |-> 0, ops |-> {}, runs |-> 0])

\* Jobs through every operation of JobManager, on all of their columns
InitFields == InitIn([jobs |-> NumJobs, exes |-> 0, whens |-> Times, columns |-> AllColumns,
                      workers |-> 0, ops |-> {}, runs |-> 0])

NextJobs ==
    \/ CreateJob
    \/ PopulateJobData
    \/ QueueJobs
    \/ UpdateStatus
    \/ FailJob
    \/ CompleteJob
    \/ SupersedeJobs
    \/ UpdateJobsToCanceled
    \/ UpdateJobsToRunning
    \/ IncrementMaxTries

Next ==
    \/ NextJobs
    \/ CreateJobExe
    \/ ExeUpdateStatus

Spec == Init /\ [][Next]_vars
SpecFields == InitFields /\ [][NextJobs]_vars

\* ------------------------------------- transactions: bounds and tables
NumWorkers == 2     \* concurrent transactions
NumLockJobs == 2    \* job rows the locking transactions contend for
MaxRuns == 4        \* transactions ever begun by the concurrent workers
MaxTxnRuns == 2     \* transactions ever begun by the single worker that may fail

\* The rows a job can have been left with by create_job, populate_job_data,
\* queue_jobs and update_status: a new job, one with data, one queued, one
\* blocked, one queued and then failed.
PreparedJobs ==
    LET new == Stored(Saved(create_job(JobTypeModel(1), TRUE, NoId).job))
        One(row) == [j \in {1} |-> row]
        data == Stored(populate_job_data(<<new>>, 1, new, TRUE, NewJobType, 0).db[1])
        queued == Stored(queue_jobs(<<data>>, One(data), "t1", NoPriority).db[1])
        blocked == Stored(update_status(<<data>>, One(data), "BLOCKED", "t1", NoError).db[1])
        failed == Stored(update_status(<<queued>>, One(queued), "FAILED", "t1", "err").db[1])
    IN  {new, data, queued, blocked, failed}

\* the execution rows of the jobs of a table that are queued
PreparedExes(table) ==
    LET queued == {j \in 1..Len(table) : table[j].status = "QUEUED"}
        exes == Ascending(queued)
    IN  [e \in 1..Len(exes) |-> NewJobExe(exes[e], table[exes[e]].num_exes, "t1")]

InitTxns(sc, statuses) ==
    /\ scope = sc
    /\ job_types = PreparedTypes.job_types
    /\ job_type_revs = PreparedTypes.job_type_revs
    /\ updater = NewUpdater
    /\ resources = NoResources
    /\ error_db = <<>>
    /\ cached_errors = NoCachedErrors
    /\ exe_mem = <<>>
    /\ db \in [1..sc.jobs -> {row \in PreparedJobs : row.status \in statuses}]
    /\ exe_db = PreparedExes(db)
    /\ mem = NoModels
    /\ last = [op |-> "init", jobs |-> {}, status |-> "", when |-> NoTime,
               error |-> NoError, arg |-> 0, raised |-> FALSE, out |-> {}, pre |-> db]
    /\ txn = [of |-> [t \in 1..sc.workers |-> IdleTxn], begun |-> 0]

\* Transactions that only take locks, on queued jobs and their executions
InitLock ==
    InitTxns([jobs |-> NumLockJobs, exes |-> NumLockJobs, whens |-> Times,
              columns |-> CoreColumns, workers |-> NumWorkers, ops |-> {"lock_jobs"},
              runs |-> MaxRuns], {"QUEUED"})

NextLock ==
    \/ \E t \in Workers : TxnBegin(t)
    \/ \E t \in Workers : TxnLockExe(t)
    \/ \E t \in Workers : TxnLockJob(t)
    \/ \E t \in Workers : TxnCommit(t)

SpecLock == InitLock /\ [][NextLock]_vars

\* The scheduler's running update against cancels and re-queues of one job
InitConc ==
    InitTxns([jobs |-> NumJobs, exes |-> 0, whens |-> Times,
              columns |-> CoreColumns \cup {"started"}, workers |-> NumWorkers,
              ops |-> {"update_jobs_to_running", "update_jobs_to_canceled", "queue_jobs"},
              runs |-> MaxRuns], JOB_STATUSES)

NextConc ==
    \/ \E t \in Workers : TxnBegin(t)
    \/ \E t \in Workers : TxnLockJob(t)
    \/ \E t \in Workers : TxnStatement(t)
    \/ \E t \in Workers : TxnCommit(t)

SpecConc == InitConc /\ [][NextConc]_vars

\* One worker's multi-row status transitions, failing at any point
InitTxn ==
    InitTxns([jobs |-> NumLockJobs, exes |-> NumLockJobs, whens |-> Times,
              columns |-> CoreColumns, workers |-> 1,
              ops |-> {"queue_jobs", "update_status", "supersede_jobs", "exe_update_status"},
              runs |-> MaxTxnRuns], JOB_STATUSES)

NextTxn ==
    \/ \E t \in Workers : TxnBegin(t)
    \/ \E t \in Workers : TxnLockExe(t)
    \/ \E t \in Workers : TxnLockJob(t)
    \/ \E t \in Workers : TxnStatement(t)
    \/ \E t \in Workers : TxnCommit(t)
    \/ \E t \in Workers : TxnFail(t)

SpecTxn == InitTxn /\ [][NextTxn]_vars

\* ------------------------------------------ one call on a table of two jobs
BatchTimes == {"t1", "t2"}

\* The rows of PreparedJobs and what update_jobs_to_canceled, update_status
\* (COMPLETED, RUNNING) and supersede_jobs make of them
BatchJobs ==
    LET One(row) == [j \in {1} |-> row]
        Cancel(row) == Stored(update_jobs_to_canceled(<<row>>, {1}, "t1").db[1])
        Complete(row) ==
            Stored(update_status(<<row>>, One(row), "COMPLETED", "t1", NoError).db[1])
        Run(row) == Stored(update_status(<<row>>, One(row), "RUNNING", "t1", NoError).db[1])
        Supersede(row) == Stored(supersede_jobs(<<row>>, One(row), "t1").db[1])
        queued == {row \in PreparedJobs : row.status = "QUEUED"}
        lived == PreparedJobs \cup {Cancel(row) : row \in PreparedJobs}
                              \cup {Complete(row) : row \in queued}
                              \cup {Run(row) : row \in queued}
    IN  lived \cup {Supersede(row) : row \in lived}

InitBatch ==
    /\ scope = [jobs |-> NumLockJobs, exes |-> NumLockJobs, whens |-> BatchTimes,
                columns |-> AllColumns, workers |-> 0, ops |-> {}, runs |-> 0]
    /\ job_types = PreparedTypes.job_types
    /\ job_type_revs = PreparedTypes.job_type_revs
    /\ updater = NewUpdater
    /\ resources = NoResources
    /\ error_db = <<>>
    /\ cached_errors = NoCachedErrors
    /\ exe_mem = <<>>
    /\ db \in [1..NumLockJobs -> BatchJobs]
    /\ exe_db = PreparedExes(db)
    /\ mem = NoModels
    /\ last = [op |-> "init", jobs |-> {}, status |-> "", when |-> NoTime,
               error |-> NoError, arg |-> 0, raised |-> FALSE, out |-> {}, pre |-> db]
    /\ txn = NoTxns

\* one call of a batch operation on the table
NextBatch ==
    \/ (last.op = "init" /\ QueueJobs)
    \/ (last.op = "init" /\ UpdateStatus)
    \/ (last.op = "init" /\ SupersedeJobs)
    \/ (last.op = "init" /\ UpdateJobsToCanceled)
    \/ (last.op = "init" /\ ExeUpdateStatus)
    \/ (last.op = "init" /\ QueueJobExes)

SpecBatch == InitBatch /\ [][NextBatch]_vars

\* ----------------------------- a job, its executions and their outputs
\* A queued job before its first execution, on the columns that decide control
\* flow and on `results`
InitOutput ==
    /\ scope = [jobs |-> NumJobs, exes |-> MaxJobExes, whens |-> Times,
                columns |-> CoreColumns \cup {"results"},
                workers |-> 0, ops |-> {}, runs |-> 0]
    /\ job_types = PreparedTypes.job_types
    /\ job_type_revs = PreparedTypes.job_type_revs
    /\ updater = NewUpdater
    /\ resources = NoResources
    /\ error_db = <<>>
    /\ cached_errors = NoCachedErrors
    /\ exe_mem = <<>>
    /\ db \in [1..NumJobs -> {row \in PreparedJobs : row.status = "QUEUED"}]
    /\ exe_db = <<>>
    /\ mem = NoModels
    /\ last = [op |-> "init", jobs |-> {}, status |-> "", when |-> NoTime,
               error |-> NoError, arg |-> 0, raised |-> FALSE, out |-> {}, pre |-> db]
    /\ txn = NoTxns

NextOutput ==
    \/ QueueJobs
    \/ UpdateStatus
    \/ FailJob
    \/ CompleteJob
    \/ UpdateJobsToCanceled
    \/ CreateJobExe
    \/ ExeUpdateStatus
    \/ PostStepsResults
    \/ PerformUpdateIteration

SpecOutput == InitOutput /\ [][NextOutput]_vars

\* ------------------------------------------- job types and their revisions
NumJobTypes == 1    \* job type rows that ever exist
MaxRevisions == 3   \* cap on JobType.revision_num

\* the keyword arguments a caller passes: none, a field of the job type, a
\* timeout that is not positive, a field that is not editable
KwargSets ==
    {<<>>,
     [f \in {"priority"} |-> 7],
     [f \in {"timeout"} |-> 0],
     [f \in {"revision_num"} |-> 1]}

\* the keyword arguments passed for a system job type: none, is_paused,
\* another field, is_paused with another field
SystemKwargSets ==
    {<<>>,
     [f \in {"is_paused"} |-> TRUE],
     [f \in {"is_paused"} |-> FALSE],
     [f \in {"priority"} |-> 7],
     [f \in {"is_paused", "priority"} |-> IF f = "is_paused" THEN TRUE ELSE 7]}

\* what a caller passes to edit the job type: custom resources are passed
\* for a system job type only
KwargSetsFor(job_type) == IF job_type.is_system THEN SystemKwargSets ELSE KwargSets
CustomResourcesFor(job_type) ==
    IF job_type.is_system THEN {NoCustomResources, "r1"} ELSE {NoCustomResources}

CreateJobType ==
    \E interface \in Interfaces, kwargs \in KwargSets, valid \in BOOLEAN :
        /\ Len(job_types) < NumJobTypes
        /\ LET r == create_job_type(job_types, job_type_revs, interface, kwargs, valid)
           IN  /\ job_types' = r.job_types
               /\ job_type_revs' = r.job_type_revs
               /\ mem' = NoModels
               /\ last' = Call("create_job_type", {}, "", NoTime, NoError,
                               [job_type |-> Len(job_types) + 1, interface |-> interface],
                               r.raised, {})
        /\ UNCHANGED <<db, exe_db, scope, txn, updater, resources, error_db, cached_errors,
                       exe_mem>>

EditJobType ==
    \E t \in JobTypeIds, interface \in {NoInterface} \cup Interfaces, valid \in BOOLEAN :
      \E kwargs \in KwargSetsFor(job_types[t]),
         custom_resources \in CustomResourcesFor(job_types[t]) :
        /\ interface # NoInterface => job_types[t].revision_num < MaxRevisions
        /\ LET r == edit_job_type(job_types, job_type_revs, t, interface,
                                  custom_resources, kwargs, valid)
           IN  /\ job_types' = r.job_types
               /\ job_type_revs' = r.job_type_revs
               /\ mem' = NoModels
               /\ last' = Call("edit_job_type", {}, "", NoTime, NoError,
                               [job_type |-> t, interface |-> interface,
                                custom_resources |-> custom_resources,
                                kwargs |-> kwargs],
                               r.raised, {})
        /\ UNCHANGED <<db, exe_db, scope, txn, updater, resources, error_db, cached_errors,
                       exe_mem>>

\* Job.get_job_interface read through the job type instead of the revision
get_job_interface_of_type(job) == job_types[job.job_type].interface

\* Job.get_job_interface: the interface of the job's revision
get_job_interface(job) == job_type_revs[job.job_type_rev].interface

\* Job types created and edited, and a job of one of them created, queued
\* and moved through its statuses
InitTypes ==
    /\ db = <<>>
    /\ exe_db = <<>>
    /\ mem = NoModels
    /\ last = [op |-> "init", jobs |-> {}, status |-> "", when |-> NoTime,
               error |-> NoError, arg |-> 0, raised |-> FALSE, out |-> {}, pre |-> <<>>]
    /\ scope = [jobs |-> NumJobs, exes |-> 0, whens |-> Times,
                columns |-> CoreColumns \cup {"job_type", "job_type_rev"},
                workers |-> 0, ops |-> {}, runs |-> 0]
    /\ txn = NoTxns
    /\ job_types = <<>>
    /\ job_type_revs = <<>>
    /\ updater = NewUpdater
    /\ resources = NoResources
    /\ error_db = <<>>
    /\ cached_errors = NoCachedErrors
    /\ exe_mem = <<>>

NextTypes ==
    \/ CreateJobType
    \/ EditJobType
    \/ CreateJob
    \/ PopulateJobData
    \/ QueueJobs
    \/ UpdateStatus

SpecTypes == InitTypes /\ [][NextTypes]_vars

\* ------------------------------------------------------ a system job type
\* One system job type, as the fixtures of the installation load it with
\* its first revision, and the edits of it
InitSystemType ==
    /\ db = <<>>
    /\ exe_db = <<>>
    /\ mem = NoModels
    /\ last = [op |-> "init", jobs |-> {}, status |-> "", when |-> NoTime,
               error |-> NoError, arg |-> 0, raised |-> FALSE, out |-> {}, pre |-> <<>>]
    /\ scope = [jobs |-> 0, exes |-> 0, whens |-> Times, columns |-> CoreColumns,
                workers |-> 0, ops |-> {}, runs |-> 0]
    /\ txn = NoTxns
    /\ LET r == create_job_type(<<>>, <<>>, "i1", <<>>, TRUE)
       IN  /\ job_types = [r.job_types EXCEPT ![1].is_system = TRUE]
           /\ job_type_revs = r.job_type_revs
    /\ updater = NewUpdater
    /\ resources = NoResources
    /\ error_db = <<>>
    /\ cached_errors = NoCachedErrors
    /\ exe_mem = <<>>

NextSystemType ==
    \/ EditJobType

SpecSystemType == InitSystemType /\ [][NextSystemType]_vars

\* ---------------------------------- every queue followed by its executions
\* Jobs whose every queue_jobs is followed by queue_job_exes
InitQueue == InitIn([jobs |-> NumJobs, exes |-> MaxExes, whens |-> Times,
                     columns |-> CoreColumns, workers |-> 0, ops |-> {}, runs |-> 0])

NextQueue ==
    \/ CreateJob
    \/ PopulateJobData
    \/ QueueJobsThenExes
    \/ UpdateStatus
    \/ FailJob
    \/ UpdateJobsToCanceled

SpecQueue == InitQueue /\ [][NextQueue]_vars

\* -------------------------------------------------------- NodeResources
\* Resource values are floats; the model counts them in millionths, so that
\* round(value, 5) is a rounding to tens.  The values drawn are even: no
\* value lies half way between two tens.
MaxResourceValue == 8                  \* cap on a resource value
ResourceValues == {0, 4}               \* values a resource is constructed with
CustomResources == {"gpus"}            \* names other than cpus, mem and disk
NodeObjects == {"A", "B"}              \* the NodeResources objects

\* round(value, 5)
Round5(value) ==
    IF value >= 0 THEN 10 * ((value + 5) \div 10) ELSE 0 - 10 * ((5 - value) \div 10)

\* NodeResources(resources): the resources given, and cpus, mem and disk
NodeResources(given) ==
    [n \in DOMAIN given \cup {"cpus", "mem", "disk"} |->
        IF n \in DOMAIN given THEN given[n] ELSE 0]

\* add: a value is added to a name self has, a name it lacks is copied
add(self, node_resources) ==
    [n \in DOMAIN self \cup DOMAIN node_resources |->
        IF n \notin DOMAIN node_resources THEN self[n]
        ELSE IF n \in DOMAIN self THEN self[n] + node_resources[n]
        ELSE node_resources[n]]

\* increase_up_to: a name self has is raised to the value given, a name it
\* lacks is copied
increase_up_to(self, node_resources) ==
    [n \in DOMAIN self \cup DOMAIN node_resources |->
        IF n \notin DOMAIN node_resources THEN self[n]
        ELSE IF n \in DOMAIN self
        THEN (IF self[n] < node_resources[n] THEN node_resources[n] ELSE self[n])
        ELSE node_resources[n]]

\* is_equal: the same names, and the same values rounded to 5 places
is_equal(self, node_resources) ==
    /\ DOMAIN self = DOMAIN node_resources
    /\ \A n \in DOMAIN node_resources : Round5(self[n]) = Round5(node_resources[n])

\* is_sufficient_to_meet that asks for more than what is requested
is_sufficient_to_exceed(self, node_resources) ==
    \A n \in DOMAIN node_resources :
        IF n \in DOMAIN self THEN ~(self[n] <= node_resources[n])
        ELSE ~(node_resources[n] > 0)

\* is_sufficient_to_meet: no name requested of which self has less, none
\* that self lacks unless 0.0 is requested
is_sufficient_to_meet(self, node_resources) ==
    \A n \in DOMAIN node_resources :
        IF n \in DOMAIN self THEN ~(self[n] < node_resources[n])
        ELSE ~(node_resources[n] > 0)

\* subtract: a value is subtracted from a name self has; other names are
\* skipped
subtract(self, node_resources) ==
    [n \in DOMAIN self |->
        IF n \in DOMAIN node_resources THEN self[n] - node_resources[n] ELSE self[n]]

\* what is recorded of a call on NodeResources objects: the objects, what
\* self was before an addition that is taken back, and what the call returned
ResourceCall(op, x, y, before, out) ==
    [op |-> op, jobs |-> {}, status |-> "", when |-> NoTime, error |-> NoError,
     arg |-> [self |-> x, other |-> y, before |-> before], raised |-> FALSE,
     out |-> out, pre |-> db]

Within(vector) ==
    \A n \in DOMAIN vector : vector[n] \in (0 - MaxResourceValue)..MaxResourceValue

Add ==
    \E x \in NodeObjects, y \in NodeObjects :
        /\ Within(add(resources[x], resources[y]))
        /\ resources' = [resources EXCEPT ![x] = add(resources[x], resources[y])]
        /\ last' = ResourceCall("add", x, y, 0, {})
        /\ UNCHANGED <<db, exe_db, mem, scope, txn, job_types, job_type_revs, updater,
                       error_db, cached_errors, exe_mem>>

IncreaseUpTo ==
    \E x \in NodeObjects, y \in NodeObjects :
        /\ resources' = [resources EXCEPT ![x] = increase_up_to(resources[x], resources[y])]
        /\ last' = ResourceCall("increase_up_to", x, y, 0, {})
        /\ UNCHANGED <<db, exe_db, mem, scope, txn, job_types, job_type_revs, updater,
                       error_db, cached_errors, exe_mem>>

Subtract ==
    \E x \in NodeObjects, y \in NodeObjects :
        /\ Within(subtract(resources[x], resources[y]))
        /\ resources' = [resources EXCEPT ![x] = subtract(resources[x], resources[y])]
        /\ last' = ResourceCall("subtract", x, y, 0, {})
        /\ UNCHANGED <<db, exe_db, mem, scope, txn, job_types, job_type_revs, updater,
                       error_db, cached_errors, exe_mem>>

\* A caller adds resources and subtracts them again.  When both are one
\* object, what is subtracted is the object as add left it.
AddThenSubtract ==
    \E x \in NodeObjects, y \in NodeObjects :
        LET added == add(resources[x], resources[y])
            other == IF x = y THEN added ELSE resources[y]
        IN  /\ Within(added) /\ Within(subtract(added, other))
            /\ resources' = [resources EXCEPT ![x] = subtract(added, other)]
            /\ last' = ResourceCall("add_subtract", x, y, resources[x], {})
            /\ UNCHANGED <<db, exe_db, mem, scope, txn, job_types, job_type_revs, updater,
                           error_db, cached_errors, exe_mem>>

IsSufficientToMeet ==
    \E x \in NodeObjects, y \in NodeObjects :
        /\ last' = ResourceCall("is_sufficient_to_meet", x, y, 0,
                                is_sufficient_to_meet(resources[x], resources[y]))
        /\ UNCHANGED <<db, exe_db, mem, scope, txn, job_types, job_type_revs, updater,
                       resources, error_db, cached_errors, exe_mem>>

\* Two NodeResources objects constructed from non-negative values
InitResources ==
    /\ scope = [jobs |-> 0, exes |-> 0, whens |-> Times, columns |-> CoreColumns,
                workers |-> 0, ops |-> {}, runs |-> 0]
    /\ job_types = PreparedTypes.job_types
    /\ job_type_revs = PreparedTypes.job_type_revs
    /\ updater = NewUpdater
    /\ db = <<>>
    /\ exe_db = <<>>
    /\ mem = NoModels
    /\ last = [op |-> "init", jobs |-> {}, status |-> "", when |-> NoTime,
               error |-> NoError, arg |-> 0, raised |-> FALSE, out |-> {}, pre |-> db]
    /\ txn = NoTxns
    /\ error_db = <<>>
    /\ cached_errors = NoCachedErrors
    /\ exe_mem = <<>>
    /\ resources \in [NodeObjects ->
                        {NodeResources(given) :
                            given \in UNION {[names -> ResourceValues] :
                                               names \in SUBSET ({"cpus"} \cup CustomResources)}}]

NextResources ==
    \/ Add
    \/ IncreaseUpTo
    \/ Subtract
    \/ AddThenSubtract
    \/ IsSufficientToMeet

SpecResources == InitResources /\ [][NextResources]_vars

\* ----------------------------------------- the resources a job requires
\* the methods class NodeResources defines
NodeResourcesMethods == {"add", "generate_status_json", "increase_up_to", "is_equal",
                         "is_sufficient_to_meet", "subtract", "to_logging_string"}

\* JobType.get_resources: the custom resources of the type (none here)
\* without cpus, mem and disk, and its cpus, at least MIN_CPUS.  Class
\* NodeResources defines no remove_resource: AttributeError.
job_type_get_resources(job_type) ==
    LET custom == NodeResources(NoResources)
        removed == [n \in DOMAIN custom \ {"cpus", "mem", "disk"} |-> custom[n]]
        cpus == Max(job_type.cpus_required, MIN_CPUS)
    IN  IF "remove_resource" \notin NodeResourcesMethods
        THEN [raised |-> TRUE, resources |-> NoResources]
        ELSE [raised |-> FALSE,
              resources |-> add(removed, NodeResources([n \in {"cpus"} |-> cpus]))]

\* Job.get_resources: the resources of the job type, then mem and disk from
\* disk_in_required and the formulas of the type
get_resources(job, job_type) ==
    LET r == job_type_get_resources(job_type)
        disk_in_required == IF job.disk_in_required \in {NoSize, 0}
                            THEN 0 ELSE job.disk_in_required
        memory_mb == required_mb(job_type.mem_mult_required, disk_in_required,
                                 job_type.mem_const_required)
        memory_required == Max(memory_mb, MIN_MEM)
        output_size_mb == required_mb(job_type.disk_out_mult_required, disk_in_required,
                                      job_type.disk_out_const_required)
        disk_out_required == Max(output_size_mb, MIN_DISK)
    IN  IF r.raised
        THEN r
        ELSE [raised |-> FALSE,
              resources |-> add(r.resources,
                                NodeResources([n \in {"mem", "disk"} |->
                                    IF n = "mem" THEN memory_required
                                    ELSE disk_out_required + disk_in_required]))]

GetResources ==
    \E j \in JobIds :
        LET r == get_resources(db[j], JobTypeOf(db[j]))
        IN  /\ mem' = NoModels
            /\ last' = Call("get_resources", {j}, "", NoTime, NoError, 0, r.raised,
                            r.resources)
            /\ UNCHANGED <<db, exe_db, scope, txn, job_types, job_type_revs, updater,
                           resources, error_db, cached_errors, exe_mem>>

\* the job types of the specification of the sizes: the defaults of the
\* model, the type of the scenario (disk_out_mult_required 1.0), and one
\* with multipliers of a half and a negative constant
SizeTypes ==
    LET scenario == [f \in {"disk_out_mult_required"} |-> 2]
        halves == [f \in {"mem_const_required", "mem_mult_required",
                           "disk_out_const_required", "disk_out_mult_required",
                           "cpus_required"} |->
                     CASE f = "mem_const_required" -> 200
                       [] f = "disk_out_const_required" -> 0 - 20
                       [] f = "cpus_required" -> 10
                       [] OTHER -> 1]
        one == create_job_type(<<>>, <<>>, "i1", <<>>, TRUE)
        two == create_job_type(one.job_types, one.job_type_revs, "i1", scenario, TRUE)
    IN  create_job_type(two.job_types, two.job_type_revs, "i1", halves, TRUE)

\* A new job of one of these types
InitSizes ==
    /\ scope = [jobs |-> NumJobs, exes |-> 0, whens |-> Times,
                columns |-> CoreColumns \cup SizeColumns \cup {"job_type"},
                workers |-> 0, ops |-> {}, runs |-> 0]
    /\ job_types = SizeTypes.job_types
    /\ job_type_revs = SizeTypes.job_type_revs
    /\ updater = NewUpdater
    /\ resources = NoResources
    /\ error_db = <<>>
    /\ cached_errors = NoCachedErrors
    /\ exe_mem = <<>>
    /\ \E t \in 1..Len(SizeTypes.job_types) :
           db = [j \in 1..NumJobs |-> Stored(Saved(create_job(JobTypeModel(t), TRUE, NoId).job))]
    /\ exe_db = <<>>
    /\ mem = NoModels
    /\ last = [op |-> "init", jobs |-> {}, status |-> "", when |-> NoTime,
               error |-> NoError, arg |-> 0, raised |-> FALSE, out |-> {}, pre |-> db]
    /\ txn = NoTxns

NextSizes ==
    \/ PopulateJobData
    \/ GetResources
    \/ QueueJobs
    \/ UpdateStatus

SpecSizes == InitSizes /\ [][NextSizes]_vars

\* ------------------------------------------------------ the error cache
MaxErrors == 3                            \* error rows that ever exist
ErrorNames == {"unknown", "e1", "e2"}     \* names a caller passes

\* the model instance of a row: instances of one row are equal
ErrorModel(table, id) == [id |-> id, name |-> table[id].name,
                          is_builtin |-> table[id].is_builtin]

\* Error.objects.get(name=name): the rows of that name (name is unique)
errors_named(table, name) == {id \in 1..Len(table) : table[id].name = name}

\* cache_builtin_errors: every built-in row is put in the cache
cache_builtin_errors(table, cache) ==
    LET builtin == {id \in 1..Len(table) : table[id].is_builtin}
        names == {table[id].name : id \in builtin}
    IN  [n \in DOMAIN cache \cup names |->
            IF n \in names
            THEN ErrorModel(table, CHOOSE id \in builtin : table[id].name = n)
            ELSE cache[n]]

\* get_error that reads the table each time and caches nothing
get_error_uncached(table, cache, name) ==
    LET rows == errors_named(table, name)
    IN  IF rows = {}
        THEN [raised |-> TRUE, cache |-> cache, out |-> {}]
        ELSE [raised |-> FALSE, cache |-> cache,
              out |-> ErrorModel(table, CHOOSE id \in rows : TRUE)]

\* get_error: the cached model, or the row of that name, which is then
\* cached; DoesNotExist when there is none
get_error(table, cache, name) ==
    LET rows == errors_named(table, name)
    IN  IF name \in DOMAIN cache
        THEN [raised |-> FALSE, cache |-> cache, out |-> cache[name]]
        ELSE IF rows = {}
        THEN [raised |-> TRUE, cache |-> cache, out |-> {}]
        ELSE LET error == ErrorModel(table, CHOOSE id \in rows : TRUE)
             IN  [raised |-> FALSE,
                  cache |-> [n \in DOMAIN cache \cup {name} |->
                                IF n = name THEN error ELSE cache[n]],
                  out |-> error]

\* create_error: a row that is not built in; the name is unique
create_error(table, name) ==
    IF errors_named(table, name) # {}
    THEN [raised |-> TRUE, error_db |-> table]
    ELSE [raised |-> FALSE, error_db |-> Append(table, [name |-> name, is_builtin |-> FALSE])]

ErrorCall(op, name, raised, out) ==
    [op |-> op, jobs |-> {}, status |-> "", when |-> NoTime, error |-> NoError,
     arg |-> name, raised |-> raised, out |-> out, pre |-> db]

CacheBuiltinErrors ==
    /\ cached_errors' = cache_builtin_errors(error_db, cached_errors)
    /\ last' = ErrorCall("cache_builtin_errors", "", FALSE, {})
    /\ UNCHANGED <<db, exe_db, mem, scope, txn, job_types, job_type_revs, updater,
                   resources, error_db, exe_mem>>

GetError ==
    \E name \in ErrorNames :
        LET r == get_error(error_db, cached_errors, name)
        IN  /\ cached_errors' = r.cache
            /\ last' = ErrorCall("get_error", name, r.raised, r.out)
            /\ UNCHANGED <<db, exe_db, mem, scope, txn, job_types, job_type_revs, updater,
                           resources, error_db, exe_mem>>

CreateError ==
    \E name \in ErrorNames :
        LET r == create_error(error_db, name)
        IN  /\ Len(error_db) < MaxErrors
            /\ error_db' = r.error_db
            /\ last' = ErrorCall("create_error", name, r.raised, {})
            /\ UNCHANGED <<db, exe_db, mem, scope, txn, job_types, job_type_revs, updater,
                           resources, cached_errors, exe_mem>>

\* A process starts with an empty cache; the table has the built-in error
\* `unknown` or is empty
InitErrors ==
    /\ scope = [jobs |-> 0, exes |-> 0, whens |-> Times, columns |-> CoreColumns,
                workers |-> 0, ops |-> {}, runs |-> 0]
    /\ job_types = PreparedTypes.job_types
    /\ job_type_revs = PreparedTypes.job_type_revs
    /\ updater = NewUpdater
    /\ resources = NoResources
    /\ error_db \in {<<>>, <<[name |-> "unknown", is_builtin |-> TRUE]>>,
                      <<[name |-> "e1", is_builtin |-> TRUE],
                        [name |-> "unknown", is_builtin |-> TRUE]>>}
    /\ cached_errors = NoCachedErrors
    /\ exe_mem = <<>>
    /\ db = <<>>
    /\ exe_db = <<>>
    /\ mem = NoModels
    /\ last = [op |-> "init", jobs |-> {}, status |-> "", when |-> NoTime,
               error |-> NoError, arg |-> 0, raised |-> FALSE, out |-> {}, pre |-> db]
    /\ txn = NoTxns

NextErrors ==
    \/ CacheBuiltinErrors
    \/ GetError
    \/ CreateError

SpecErrors == InitErrors /\ [][NextErrors]_vars

\* ------------------------------------------------------- the cluster ID
NumClusterExes == 2    \* JobExecution models in memory

\* the value imported from job.execution.tasks.exe_task, which is a fixed
\* string; one character stands for it
JOB_TASK_ID_PREFIX == <<"P">>

\* '%d' of a non-negative integer: its decimal digits
Digits == <<"0", "1", "2", "3", "4", "5", "6", "7", "8", "9">>

RECURSIVE Decimal(_)
Decimal(n) ==
    IF n < 10 THEN <<Digits[n + 1]>>
    ELSE Append(Decimal(n \div 10), Digits[(n % 10) + 1])

\* framework ids, job ids and execution numbers handed to set_cluster_id
FrameworkIds == {<<"f">>, <<"f", "_", "1">>}
ClusterNumbers == {1, 2, 11}

\* set_cluster_id formatting the two numbers with nothing between them
set_cluster_id_unseparated(job_exe, framework_id, job_id, exe_num) ==
    [job_exe EXCEPT !.cluster_id = JOB_TASK_ID_PREFIX \o <<"_">> \o framework_id \o <<"_">>
                                   \o Decimal(job_id) \o Decimal(exe_num)]

\* '%s_%s_%dx%d' % (JOB_TASK_ID_PREFIX, framework_id, job_id, exe_num), set
\* on the instance (nothing is saved)
set_cluster_id(job_exe, framework_id, job_id, exe_num) ==
    [job_exe EXCEPT !.cluster_id = JOB_TASK_ID_PREFIX \o <<"_">> \o framework_id \o <<"_">>
                                   \o Decimal(job_id) \o <<"x">> \o Decimal(exe_num)]

\* get_cluster_id of the instance of row `pk`
get_cluster_id(pk, job_exe) ==
    IF job_exe.cluster_id = NoClusterId
    THEN <<"s", "c", "a", "l", "e", "_">> \o Decimal(pk)
    ELSE job_exe.cluster_id

\* What is recorded of a call on the instance `pk`: `given` keeps, for
\* every instance, the arguments of the last set_cluster_id on it (<<>>:
\* none), `out` what get_cluster_id returned.
ClusterCall(op, pk, given, out) ==
    [op |-> op, jobs |-> {pk}, status |-> "", when |-> NoTime, error |-> NoError,
     arg |-> given, raised |-> FALSE, out |-> out, pre |-> db]

SetClusterId ==
    \E pk \in 1..Len(exe_mem), framework_id \in FrameworkIds,
       job_id \in ClusterNumbers, exe_num \in ClusterNumbers :
        /\ exe_mem' = [exe_mem EXCEPT
                          ![pk] = set_cluster_id(@, framework_id, job_id, exe_num)]
        /\ last' = ClusterCall("set_cluster_id", pk,
                               [last.arg EXCEPT ![pk] = <<framework_id, job_id, exe_num>>],
                               <<>>)
        /\ UNCHANGED <<db, exe_db, mem, scope, txn, job_types, job_type_revs, updater,
                       resources, error_db, cached_errors>>

GetClusterId ==
    \E pk \in 1..Len(exe_mem) :
        /\ last' = ClusterCall("get_cluster_id", pk, last.arg,
                               get_cluster_id(pk, exe_mem[pk]))
        /\ UNCHANGED <<db, exe_db, mem, scope, txn, job_types, job_type_revs, updater,
                       resources, error_db, cached_errors, exe_mem>>

\* the executions of one job, loaded from rows that have no cluster_id
InitCluster ==
    /\ scope = [jobs |-> 0, exes |-> 0, whens |-> Times, columns |-> CoreColumns,
                workers |-> 0, ops |-> {}, runs |-> 0]
    /\ job_types = PreparedTypes.job_types
    /\ job_type_revs = PreparedTypes.job_type_revs
    /\ updater = NewUpdater
    /\ resources = NoResources
    /\ error_db = <<>>
    /\ cached_errors = NoCachedErrors
    /\ exe_mem = [pk \in 1..NumClusterExes |-> NewJobExe(1, pk, NoTime)]
    /\ db = <<>>
    /\ exe_db = <<>>
    /\ mem = NoModels
    /\ last = ClusterCall("init", 0, [pk \in 1..NumClusterExes |-> <<>>], <<>>)
    /\ txn = NoTxns

NextCluster ==
    \/ SetClusterId
    \/ GetClusterId

SpecCluster == InitCluster /\ [][NextCluster]_vars

\* ------------------------------------------ the database update, by pages
PageSize == 1          \* executions with a status read per iteration ([:500])
NumUpdaterJobs == 2    \* job rows of the table that is updated
NumUpdaterExes == 3    \* job execution rows of the table that is updated

\* the pages an iteration may read: the query is not ordered
Pages(exe_table) ==
    LET rows == with_status(exe_table)
        size == IF Cardinality(rows) < PageSize THEN Cardinality(rows) ELSE PageSize
    IN  {page \in SUBSET rows : Cardinality(page) = size}

\* what the updater records of a step of update()
UpdaterCall(arg, raised, out) ==
    Call("update", out, "", NoTime, NoError, arg, raised, out)

\* update() begins: _perform_update_init counts the executions with a status
UpdaterInit ==
    /\ updater.pc = "idle"
    /\ updater' = [updater EXCEPT !.pc = "check",
                                  !.total = Cardinality(with_status(exe_db))]
    /\ mem' = NoModels
    /\ last' = UpdaterCall("init", FALSE, {})
    /\ UNCHANGED <<db, exe_db, scope, txn, job_types, job_type_revs,
                   resources, error_db, cached_errors, exe_mem>>

\* the head of the loop of update(): TerminatedCommand when stop() was
\* called, return when enough executions were updated, else an iteration
UpdaterCheck ==
    /\ updater.pc = "check"
    /\ updater' = [updater EXCEPT !.pc = IF ~updater.running THEN "terminated"
                                         ELSE IF updater.updated >= updater.total
                                         THEN "returned" ELSE "page"]
    /\ mem' = NoModels
    /\ last' = UpdaterCall(updater'.pc, ~updater.running, {})
    /\ UNCHANGED <<db, exe_db, scope, txn, job_types, job_type_revs,
                   resources, error_db, cached_errors, exe_mem>>

\* _perform_update_iteration on one page; an IntegrityError, or a failure
\* of the database, leaves update()
UpdaterIteration ==
    \E page \in Pages(exe_db), failure \in UpdaterFailures :
        LET r == perform_update_iteration(exe_db, page, failure)
        IN  /\ updater.pc = "page"
            /\ exe_db' = r.exe_db
            /\ updater' = IF r.raised
                          THEN [updater EXCEPT !.pc = "failed"]
                          ELSE [updater EXCEPT !.pc = "check",
                                               !.updated = @ + r.count]
            /\ mem' = NoModels
            /\ last' = Call("perform_update_iteration", r.out, "", NoTime, NoError,
                            page, r.raised, r.out)
            /\ UNCHANGED <<db, scope, txn, job_types, job_type_revs,
                           resources, error_db, cached_errors, exe_mem>>

\* stop(), from another thread
UpdaterStop ==
    /\ updater.pc \in {"idle", "check", "page"}
    /\ updater.running
    /\ updater' = [updater EXCEPT !.running = FALSE]
    /\ UNCHANGED <<db, exe_db, mem, last, scope, txn, job_types, job_type_revs,
                   resources, error_db, cached_errors, exe_mem>>

\* the update is run again, by a new DatabaseUpdater
UpdaterAgain ==
    /\ updater.pc \in {"returned", "terminated", "failed"}
    /\ updater' = NewUpdater
    /\ mem' = NoModels
    /\ last' = UpdaterCall("new", FALSE, {})
    /\ UNCHANGED <<db, exe_db, scope, txn, job_types, job_type_revs,
                   resources, error_db, cached_errors, exe_mem>>

\* The execution rows the update can find: of the new schema (no status), or
\* of the old one, RUNNING or ended by JobExecutionManager.update_status.
UpdaterRows ==
    LET row(j) == NewJobExe(j, NoExeNum, "t1")
        running(j) == [row(j) EXCEPT !.status = "RUNNING"]
    IN  UNION {{row(j), running(j),
                exe_update_status_update(<<running(j)>>, {1}, "COMPLETED", "t1", NoError)[1],
                exe_update_status_update(<<running(j)>>, {1}, "FAILED", "t1", "err")[1]} :
               j \in 1..NumUpdaterJobs}

\* The tables the update can find: such rows, or a table already updated one
\* of whose executions was then given a final status (again).
UpdaterTables ==
    LET fresh == [1..NumUpdaterExes -> UpdaterRows]
        updated(t) == perform_update_iteration(t, with_status(t), "none").exe_db
        again == {exe_update_status_update(updated(t), {e}, "FAILED", "t1", "err") :
                     t \in fresh, e \in 1..NumUpdaterExes}
    IN  fresh \cup again

\* Two queued jobs and their executions
InitUpdater ==
    /\ scope = [jobs |-> NumUpdaterJobs, exes |-> NumUpdaterExes, whens |-> Times,
                columns |-> CoreColumns, workers |-> 0, ops |-> {}, runs |-> 0]
    /\ job_types = PreparedTypes.job_types
    /\ job_type_revs = PreparedTypes.job_type_revs
    /\ updater = NewUpdater
    /\ resources = NoResources
    /\ error_db = <<>>
    /\ cached_errors = NoCachedErrors
    /\ exe_mem = <<>>
    /\ db \in [1..NumUpdaterJobs -> {row \in PreparedJobs : row.status = "QUEUED"}]
    /\ exe_db \in UpdaterTables
    /\ mem = NoModels
    /\ last = [op |-> "init", jobs |-> {}, status |-> "", when |-> NoTime,
               error |-> NoError, arg |-> 0, raised |-> FALSE, out |-> {}, pre |-> db]
    /\ txn = NoTxns

NextUpdater ==
    \/ UpdaterInit
    \/ UpdaterCheck
    \/ UpdaterIteration
    \/ UpdaterStop
    \/ UpdaterAgain

SpecUpdater == InitUpdater /\ [][NextUpdater]_vars

\* update() is a loop run by one thread: once begun, its next check and its
\* next iteration are taken
SpecUpdaterFair ==
    InitUpdater /\ [][NextUpdater]_vars /\ WF_vars(UpdaterCheck) /\ WF_vars(UpdaterIteration)

\* ------------------------------------------------- supersession chains
NumChainJobs == 4

\* Jobs created one superseding another, and superseded by their callers
InitChain == InitIn([jobs |-> NumChainJobs, exes |-> 0, whens |-> Times,
                     columns |-> CoreColumns, workers |-> 0, ops |-> {}, runs |-> 0])

NextChain ==
    \/ CreateJob
    \/ SupersedeJobs

SpecChain == InitChain /\ [][NextChain]_vars

\* ------------------------------- a queued job that gets no terminal status
InitRequeue ==
    InitTxns([jobs |-> NumJobs, exes |-> 0, whens |-> BatchTimes, columns |-> AllColumns,
              workers |-> 0, ops |-> {}, runs |-> 0], {"QUEUED"})

NoTerminalStatus == \A j \in JobIds : db[j].status \notin FINAL_STATUSES

\* the calls that leave the job in a status that is not terminal
NextRequeue ==
    \/ (QueueJobs /\ NoTerminalStatus')
    \/ (UpdateStatus /\ NoTerminalStatus')
    \/ (UpdateJobsToRunning /\ NoTerminalStatus')
    \/ (SupersedeJobs /\ NoTerminalStatus')
    \/ (IncrementMaxTries /\ NoTerminalStatus')

SpecRequeue == InitRequeue /\ [][NextRequeue]_vars

\* ------------------------------------------------------------------ claims
\* The status a job had before the last call; "" for a job the call created
PreStatus(j) == IF j \in DOMAIN last.pre THEN last.pre[j].status ELSE ""
Became(j, status) == db[j].status = status /\ PreStatus(j) # status

\* C1: in every persisted state a job's error is set if and only if its
\* status is FAILED.
C1_ErrorIffFailed ==
    \A j \in JobIds : (db[j].error # NoError) <=> (db[j].status = "FAILED")

\* C2: a job's status becomes QUEUED only as the effect of queue_jobs, on a
\* job that queue_jobs returns.
C2_QueuedOnlyByQueueJobs ==
    \A j \in JobIds :
        Became(j, "QUEUED") => (last.op = "queue_jobs" /\ j \in last.out)

C2_Witness ==
    /\ last.op = "queue_jobs"
    /\ \E j \in last.out : Became(j, "QUEUED") /\ PreStatus(j) = "FAILED"

\* C3 as claimed: a job's status becomes RUNNING only from QUEUED, and only
\* through update_jobs_to_running given the job's current execution number.
C3_RunningOnlyFromQueued ==
    \A j \in JobIds :
        Became(j, "RUNNING") =>
            /\ last.op = "update_jobs_to_running"
            /\ PreStatus(j) = "QUEUED"
            /\ j \in DOMAIN last.arg.exe_nums
            /\ last.arg.exe_nums[j] = last.pre[j].num_exes

\* C3 as amended: a job's status becomes RUNNING only through
\* update_jobs_to_running or through JobManager.update_status called with
\* status RUNNING on that job; no other operation sets RUNNING.
C3_RunningOnlyByRunningUpdates ==
    \A j \in JobIds :
        Became(j, "RUNNING") =>
            \/ last.op = "update_jobs_to_running"
            \/ (last.op = "update_status" /\ last.status = "RUNNING" /\ j \in last.jobs)

C3_Witness ==
    /\ last.op = "update_status"
    /\ \E j \in last.jobs : Became(j, "RUNNING") /\ PreStatus(j) = "COMPLETED"

\* C4 as claimed: fail_job and update_status never change the status of a
\* job that is already FAILED, COMPLETED or CANCELED.
C4_TerminalStatusKept ==
    (last.op \in {"fail_job", "update_status"}) =>
        \A j \in DOMAIN last.pre :
            last.pre[j].status \in FINAL_STATUSES => db[j].status = last.pre[j].status

\* C4 as amended: fail_job and update_status give every job they are handed
\* the requested status, whatever status the job was in, terminal or not.
C4_StatusSetRegardless ==
    (last.op \in {"fail_job", "update_status"} /\ ~last.raised) =>
        \A j \in last.jobs : db[j].status = last.status

C4_Witness ==
    /\ last.op \in {"fail_job", "update_status"}
    /\ ~last.raised
    /\ \E j \in last.jobs :
           /\ PreStatus(j) = "COMPLETED"
           /\ db[j].status \in {"FAILED", "CANCELED"}

\* C5 as claimed: the state before a job turns COMPLETED has it RUNNING.
C5_CompletedOnlyFromRunning ==
    \A j \in JobIds : Became(j, "COMPLETED") => PreStatus(j) = "RUNNING"

\* C5 as amended: a job's status becomes COMPLETED only through complete_job,
\* JobManager.update_status or JobExecutionManager.update_status called with
\* status COMPLETED on that job (or on its execution).
C5_CompletedOnlyByCompletingCalls ==
    \A j \in JobIds :
        Became(j, "COMPLETED") =>
            /\ last.op \in {"complete_job", "update_status", "exe_update_status"}
            /\ last.status = "COMPLETED"
            /\ j \in last.jobs

C5_Witness ==
    /\ last.op \in {"update_status", "exe_update_status"}
    /\ \E j \in last.jobs : Became(j, "COMPLETED") /\ PreStatus(j) # "RUNNING"

\* A job that update_jobs_to_running was given with a stale execution number
StaleRunning(j) ==
    /\ last.op = "update_jobs_to_running"
    /\ j \in DOMAIN last.arg.exe_nums
    /\ j \in DOMAIN last.pre
    /\ last.arg.exe_nums[j] # last.pre[j].num_exes

\* C6 as claimed: update_jobs_to_running, given a job with an execution
\* number that is not its current one, keeps the job's status and sets
\* started to the given time and last_modified to the current time.
C6_StaleUpdatesTiming ==
    \A j \in JobIds :
        StaleRunning(j) =>
            /\ db[j].status = last.pre[j].status
            /\ db[j].started = last.arg.when
            /\ db[j].last_modified = Now

\* C6 as amended: update_jobs_to_running, given a job with an execution
\* number that is not its current one, changes nothing of that job: status,
\* started and last_modified keep their values.
C6_StaleChangesNothing ==
    \A j \in JobIds : StaleRunning(j) => db[j] = last.pre[j]

C6_Witness ==
    \E j \in JobIds :
        /\ StaleRunning(j)
        /\ db[j].status = "QUEUED"
        /\ db[j].started # last.arg.when

\* C10: after queue_jobs, update_status, supersede_jobs, increment_max_tries
\* or populate_job_data on models read under lock, every model the call was
\* handed agrees with its persisted row on the fields these calls write.
SyncedFields == {"status", "error", "queued", "started", "ended", "last_status_change",
                 "num_exes", "priority", "max_tries", "is_superseded", "superseded",
                 "data", "last_modified"}
SyncingCalls == {"queue_jobs", "update_status", "supersede_jobs", "increment_max_tries",
                 "populate_job_data"}
C10_ModelsMatchRows ==
    (last.op \in SyncingCalls /\ ~last.raised) =>
        \A j \in DOMAIN mem : \A f \in SyncedFields : mem[j][f] = db[j][f]

C10_Witness ==
    /\ last.op = "queue_jobs"
    /\ \E j \in last.out :
           /\ db[j].num_exes = 2
           /\ db[j].priority \in Priorities
           /\ db[j].priority = last.arg
           /\ mem[j] = db[j]

Waiting(t) ==
    /\ txn.of[t].pc = "locking"
    /\ IF ~ExeLocked(t)
       THEN ExeLockHolders(txn.of[t].exe) # {}
       ELSE NextJobLock(t) # NoId /\ JobLockHolders(NextJobLock(t)) # {}
WaitsFor(t) ==
    IF ~ExeLocked(t) THEN ExeLockHolders(txn.of[t].exe) ELSE JobLockHolders(NextJobLock(t))

\* C8: transactions that lock an execution (if any) and then their batch of
\* jobs through lock_jobs / get_locked_jobs never deadlock: there is no set
\* of transactions each waiting for a lock held inside the set.
C8_NoDeadlock ==
    \A waiting \in (SUBSET Workers) \ {{}} :
        ~(\A t \in waiting : Waiting(t) /\ WaitsFor(t) \subseteq waiting)

\* two transactions given the same jobs in opposite orders, one waiting for
\* the other
C8_Witness ==
    \E t, u \in Workers :
        /\ t # u
        /\ txn.of[t].ids = <<2, 1>>
        /\ txn.of[u].ids = <<1, 2>>
        /\ txn.of[u].held = {1}
        /\ Waiting(t)
        /\ WaitsFor(t) = {u}

\* the tables a whole call leaves when nothing fails
Effect(op, table, exe_table, ids, exe, a) ==
    LET jobs == [j \in Range(ids) |-> table[j]]
        Jobs(r) == [raised |-> r.raised, db |-> r.db, exe_db |-> exe_table]
    IN  CASE op = "queue_jobs" -> Jobs(queue_jobs(table, jobs, a.when, NoPriority))
          [] op = "update_status" -> Jobs(update_status(table, jobs, a.status, a.when, a.error))
          [] op = "supersede_jobs" -> Jobs(supersede_jobs(table, jobs, a.when))
          [] op = "exe_update_status" ->
               LET r == exe_update_status(table, exe_table, {exe}, a.status, a.when, a.error)
               IN  [raised |-> r.raised, db |-> r.db, exe_db |-> r.exe_db]

MultiRowCalls == {"queue_jobs", "update_status", "supersede_jobs", "exe_update_status"}

ReadyToQueue(row) ==
    row.status \in {"PENDING", "CANCELED", "FAILED"} /\ row.data /\ ~row.is_superseded

\* C11: queue_jobs sets QUEUED exactly the given jobs that are PENDING,
\* CANCELED or FAILED, have data and are not superseded; every other given
\* job is unchanged (row and model), and the jobs returned are the jobs queued.
C11_QueuesExactlyTheReady ==
    last.op = "queue_jobs" =>
        /\ last.out = {j \in last.jobs : ReadyToQueue(last.pre[j])}
        /\ \A j \in last.jobs :
              IF ReadyToQueue(last.pre[j])
              THEN db[j].status = "QUEUED" /\ mem[j].status = "QUEUED"
              ELSE db[j] = last.pre[j] /\ mem[j] = last.pre[j]

\* a batch of a job that is ready and a superseded job that would otherwise be
C11_Witness ==
    /\ last.op = "queue_jobs"
    /\ last.jobs = {1, 2}
    /\ last.out = {1}
    /\ is_ready_to_queue(last.pre[2]) /\ last.pre[2].data /\ last.pre[2].is_superseded
    /\ db[1].status = "QUEUED"
    /\ db[2] = last.pre[2]

\* C12 as claimed: a job that has been queued and has had no terminal status
\* since is not queued by another queue_jobs call: the call returns no job
\* and changes no field.
C12_SecondQueueIsNoOp ==
    last.op = "queue_jobs" => (last.out = {} /\ db = last.pre)

\* C12 as amended: queue_jobs given a job whose status is QUEUED or RUNNING
\* does not return it and changes none of its fields.
C12_QueueOfQueuedIsNoOp ==
    last.op = "queue_jobs" =>
        \A j \in last.jobs :
            last.pre[j].status \in {"QUEUED", "RUNNING"} =>
                (j \notin last.out /\ db[j] = last.pre[j] /\ mem[j] = last.pre[j])

\* the job, queued once, is running when queue_jobs is called again at
\* another time and with a priority
C12_Witness ==
    /\ last.op = "queue_jobs"
    /\ last.when = "t2"
    /\ last.arg \in Priorities
    /\ last.pre[1].status = "RUNNING"
    /\ last.pre[1].queued = "t1"
    /\ last.out = {}
    /\ db = last.pre

\* C13: every job queue_jobs sets QUEUED has error, started and ended
\* cleared, queued and last_status_change at the given time, num_exes one
\* more than before, and the priority given (its own if none was given).
C13_QueuedJobIsReset ==
    last.op = "queue_jobs" =>
        \A j \in last.out :
            /\ db[j].error = NoError
            /\ db[j].started = NoTime
            /\ db[j].ended = NoTime
            /\ db[j].queued = last.when
            /\ db[j].last_status_change = last.when
            /\ db[j].num_exes = last.pre[j].num_exes + 1
            /\ db[j].priority = IF last.arg # NoPriority THEN last.arg
                                                           ELSE last.pre[j].priority

\* C14: fail_job without an error raises and leaves the job unchanged;
\* fail_job with an error and a time leaves the job FAILED with that error
\* and ended at that time.
C14_FailJobNeedsError ==
    last.op = "fail_job" =>
        IF last.error = NoError
        THEN last.raised /\ db = last.pre
        ELSE /\ ~last.raised
             /\ \A j \in last.jobs :
                   /\ db[j].status = "FAILED"
                   /\ db[j].error = last.error
                   /\ db[j].ended = last.when

\* the argument combinations that update_status of either manager rejects
InvalidStatusArgs(op, status, error) ==
    \/ status = "QUEUED"
    \/ (op = "exe_update_status" /\ status = "RUNNING")
    \/ (status = "FAILED" /\ error = NoError)
    \/ (status # "FAILED" /\ error # NoError)

\* C15: update_status of JobManager or of JobExecutionManager, called with
\* an invalid combination of arguments (QUEUED; RUNNING for executions;
\* FAILED without an error; another status with an error), raises and
\* changes no row of job or job_exe and no model in memory.
C15_InvalidArgumentsChangeNothing ==
    [][(/\ last'.op \in {"update_status", "exe_update_status"}
        /\ InvalidStatusArgs(last'.op, last'.arg.status, last'.arg.error))
       => /\ last'.raised
          /\ db' = db
          /\ exe_db' = exe_db
          /\ \A j \in DOMAIN mem' : mem'[j] = db[j]]_vars

C15_Witness ==
    /\ last.op = "update_status"
    /\ last.raised
    /\ last.arg.status = "FAILED"
    /\ last.arg.error = NoError
    /\ \E j \in last.arg.given \cap JobIds :
          /\ db[j].status = "RUNNING"
          /\ j \in DOMAIN mem
          /\ mem[j] = db[j]

\* C16: after JobExecutionManager.update_status returns, every execution it
\* was given and that execution's job have the status and the error of the
\* call.
C16_ExecutionAndJobAgree ==
    (last.op = "exe_update_status" /\ ~last.raised) =>
        \A e \in last.arg.given :
            /\ exe_db[e].status = last.status
            /\ exe_db[e].error = last.error
            /\ db[exe_db[e].job].status = last.status
            /\ db[exe_db[e].job].error = last.error

C16_Witness ==
    /\ last.op = "exe_update_status"
    /\ ~last.raised
    /\ last.status = "FAILED"
    /\ last.error \in Errors
    /\ Cardinality(last.arg.given) = 2
    /\ \A e \in last.arg.given :
          /\ last.pre[exe_db[e].job].status = "QUEUED"
          /\ exe_db[e].error = last.error
          /\ db[exe_db[e].job].status = "FAILED"

C19_SupersedeCancelsTheUnstarted ==
    last.op = "supersede_jobs" =>
        \A j \in JobIds :
            IF j \in last.jobs
            THEN /\ db[j].is_superseded
                 /\ db[j].superseded = last.when
                 /\ db[j].status = IF last.pre[j].status \in {"PENDING", "BLOCKED"}
                                   THEN "CANCELED"
                                   ELSE last.pre[j].status
            ELSE db[j] = last.pre[j]

\* two jobs superseded in one call: one BLOCKED, one QUEUED
C19_Witness ==
    /\ last.op = "supersede_jobs"
    /\ \E j, k \in last.jobs :
          /\ last.pre[j].status = "BLOCKED"
          /\ db[j].status = "CANCELED"
          /\ last.pre[k].status = "QUEUED"
          /\ db[k].status = "QUEUED"
          /\ ~last.pre[k].is_superseded
          /\ db[k].is_superseded

\* C20: update_jobs_to_canceled sets the status CANCELED on exactly the
\* given jobs that are neither COMPLETED nor CANCELED; the given jobs that
\* are, and every other job, have no field changed.
C20_CancelsExactlyTheCancelable ==
    last.op = "update_jobs_to_canceled" =>
        \A j \in JobIds :
            IF j \in last.jobs /\ last.pre[j].status \notin {"COMPLETED", "CANCELED"}
            THEN db[j].status = "CANCELED" /\ j \in last.out
            ELSE db[j] = last.pre[j] /\ j \notin last.out

\* two jobs given in one call: one FAILED, one CANCELED at another time
C20_Witness ==
    /\ last.op = "update_jobs_to_canceled"
    /\ \E j, k \in last.jobs :
          /\ last.pre[j].status = "FAILED"
          /\ db[j].status = "CANCELED"
          /\ last.pre[k].status = "CANCELED"
          /\ last.pre[k].last_status_change # last.when
          /\ db[k] = last.pre[k]

\* the first job of the chain of j: the job reached by following the
\* superseded_job links to their end
RECURSIVE ChainHead(_)
ChainHead(j) ==
    IF db[j].superseded_job = NoId THEN j ELSE ChainHead(db[j].superseded_job)

\* C21: every job with a superseded_job has as root_superseded_job the first
\* job of its chain, and root_superseded_job is null exactly for the jobs
\* with no superseded_job.
C21_RootIsChainHead ==
    \A j \in JobIds :
        IF db[j].superseded_job = NoId
        THEN db[j].root_superseded_job = NoId
        ELSE db[j].root_superseded_job = ChainHead(j)

\* a job created superseding J, where J has root R, has root R and not J
C21_Witness ==
    /\ last.op = "create_job"
    /\ \E j \in last.out :
          LET J == db[j].superseded_job
          IN  /\ J # NoId
              /\ db[J].root_superseded_job # NoId
              /\ db[j].root_superseded_job = db[J].root_superseded_job
              /\ db[j].root_superseded_job # J

\* C22: the job_type_rev of a job is the revision that the job type's
\* revision_num named when create_job ran (create_job is given the job
\* type's current row), with the interface the job type had then; no later
\* call (edit_job_type, create_job_type, a lifecycle operation) changes a
\* job's job_type_rev or the interface the job reads through it.
C22_RevisionPinnedAtCreation ==
    [][/\ \A j \in 1..Len(db) :
             /\ db'[j].job_type_rev = db[j].job_type_rev
             /\ get_job_interface(db[j])' = get_job_interface(db[j])
       /\ (last'.op = "create_job" /\ ~last'.raised) =>
             \A j \in last'.out :
                 LET rev == job_type_revs[db'[j].job_type_rev]
                     job_type == job_types[last'.arg.job_type]
                 IN  /\ rev.job_type = last'.arg.job_type
                     /\ rev.revision_num = job_type.revision_num
                     /\ rev.interface = job_type.interface]_vars

\* a job created at revision 2 was queued after its job type moved on to
\* revision 3 with another interface
C22_Witness ==
    /\ last.op = "queue_jobs"
    /\ \E j \in last.out :
          /\ job_type_revs[db[j].job_type_rev].revision_num = 2
          /\ job_types[db[j].job_type].revision_num = 3
          /\ job_types[db[j].job_type].interface # get_job_interface(db[j])

\* the revisions of a job type: one row for every number up to revision_num,
\* none beyond, the newest with the job type's interface
RevisionsComplete ==
    \A t \in JobTypeIds :
        /\ \A n \in 1..job_types[t].revision_num : Cardinality(get_revision(t, n)) = 1
        /\ \A r \in RevisionIds :
              job_type_revs[r].job_type = t =>
                  /\ job_type_revs[r].revision_num \in 1..job_types[t].revision_num
                  /\ job_type_revs[r].revision_num = job_types[t].revision_num
                        => job_type_revs[r].interface = job_types[t].interface

\* C23: after every call each job type has exactly one revision for every
\* number 1..revision_num, the newest holding the job type's interface;
\* revision_num goes up by one on a successful edit_job_type that gives an
\* interface and changes in no other call; no existing revision row changes.
C23_OneRevisionPerInterfaceEdit ==
    [][/\ RevisionsComplete'
       /\ \A r \in RevisionIds : job_type_revs'[r] = job_type_revs[r]
       /\ \A t \in JobTypeIds :
             job_types'[t].revision_num =
                 IF /\ last'.op = "edit_job_type"
                    /\ ~last'.raised
                    /\ last'.arg.job_type = t
                    /\ last'.arg.interface # NoInterface
                 THEN job_types[t].revision_num + 1
                 ELSE job_types[t].revision_num]_vars

\* a job type at revision 3 after two interface edits, and a later edit of
\* another field
C23_Witness ==
    /\ last.op = "edit_job_type"
    /\ ~last.raised
    /\ last.arg.interface = NoInterface
    /\ \E t \in JobTypeIds :
          /\ job_types[t].revision_num = 3
          /\ job_types[t].priority = 7
          /\ \E r \in get_revision(t, 1) :
                job_type_revs[r].interface # job_types[t].interface

\* C24: create_job raises and yields no job when the job type is not active
\* or the event is null; otherwise it yields one job with status PENDING,
\* num_exes 0 and the priority, timeout and max_tries of the job type.
C24_CreateJobChecksAndCopies ==
    last.op = "create_job" =>
        LET job_type == job_types[last.arg.job_type]
        IN  IF ~job_type.is_active \/ ~last.arg.event
            THEN last.raised /\ last.out = {} /\ db = last.pre
            ELSE /\ ~last.raised
                 /\ Cardinality(last.out) = 1
                 /\ \A j \in last.out :
                       /\ j \notin DOMAIN last.pre
                       /\ db[j].status = "PENDING"
                       /\ db[j].num_exes = 0
                       /\ db[j].priority = job_type.priority
                       /\ db[j].timeout = job_type.timeout
                       /\ db[j].max_tries = job_type.max_tries

\* create_job was refused a job of an archived job type
C24_Witness ==
    /\ last.op = "create_job"
    /\ last.raised
    /\ last.arg.event
    /\ ~job_types[last.arg.job_type].is_active
    /\ db = last.pre

\* C25: queue_job_exes creates exactly one new execution for each given job
\* that is QUEUED and none for another job, and returns exactly the
\* executions it created.
C25_OneExecutionPerQueuedJob ==
    last.op = "queue_job_exes" =>
        LET given == last.arg.given \cap JobIds
            queued == {j \in given : last.pre[j].status = "QUEUED"}
            new == {e \in ExeIds : e > Len(last.arg.pre_exe)}
        IN  /\ ~last.raised
            /\ \A e \in ExeIds \ new : exe_db[e] = last.arg.pre_exe[e]
            /\ \A j \in queued : Cardinality({e \in new : exe_db[e].job = j}) = 1
            /\ \A e \in new : exe_db[e].job \in queued
            /\ last.out = new

\* the execution rows of a job
ExesOf(j) == {e \in ExeIds : exe_db[e].job = j}

\* C26: when every queue_jobs is followed by queue_job_exes on the jobs it
\* returns, the num_exes of a job is the number of its execution rows, and
\* num_exes never decreases.
C26_NumExesCountsExecutions ==
    [][/\ \A j \in JobIds' : db'[j].num_exes = Cardinality(ExesOf(j))'
       /\ \A j \in JobIds : db'[j].num_exes >= db[j].num_exes]_vars

\* C27: an execution has a job_exe_output row only if it has a job_exe_end
\* row whose status is COMPLETED: none with an end row FAILED or CANCELED,
\* none without an end row.
C27_OutputOnlyForCompleted ==
    \A e \in ExeIds :
        exe_db[e].output_exe_num # NoOutput =>
            /\ exe_db[e].end_exe_num # NoOutput
            /\ exe_db[e].end_status = "COMPLETED"

\* an execution that ended FAILED has an end row and no output, though it
\* had results and was given the status COMPLETED afterwards
C27_Witness ==
    \E e \in ExeIds :
        /\ exe_db[e].end_status = "FAILED"
        /\ exe_db[e].output_exe_num = NoOutput
        /\ exe_db[e].status = "COMPLETED"
        /\ exe_db[e].results # NoResults
        /\ last.op = "perform_update_iteration"

\* the executions of a job, and the place of one among them in id order
JobExesOf(j) == {e \in ExeIds : exe_db[e].job = j}
PlaceInJob(e) == Cardinality({f \in JobExesOf(exe_db[e].job) : f <= e})

\* C28: after an iteration of the database update, the executions of each
\* job it processed carry exe_num 1, 2, ..., n in ascending id order, no
\* two of them the same exe_num, and the job_exe_end and job_exe_output row
\* of an execution carries the exe_num of the execution.
C28_ExeNumInCreationOrder ==
    (last.op = "perform_update_iteration" /\ ~last.raised) =>
        \A j \in last.out :
            /\ \A e \in JobExesOf(j) :
                 /\ exe_db[e].exe_num = PlaceInJob(e)
                 /\ exe_db[e].end_exe_num \in {NoOutput, exe_db[e].exe_num}
                 /\ exe_db[e].output_exe_num \in {NoOutput, exe_db[e].exe_num}
            /\ \A e, f \in JobExesOf(j) : exe_db[e].exe_num = exe_db[f].exe_num => e = f

\* a job whose two executions have another job's execution between them is
\* processed: its second execution, COMPLETED, gets exe_num 2 on all its rows
C28_Witness ==
    /\ last.op = "perform_update_iteration" /\ ~last.raised
    /\ Len(exe_db) >= 3
    /\ exe_db[1].job = exe_db[3].job /\ exe_db[2].job # exe_db[1].job
    /\ exe_db[1].job \in last.out
    /\ exe_db[3].exe_num = 2
    /\ exe_db[3].end_exe_num = 2 /\ exe_db[3].output_exe_num = 2
    /\ exe_db[1].exe_num = 1

\* C29: when update() returns (it was not stopped), no execution is left with
\* a status, so that a repeated run counts no execution and runs no iteration.
C29_ReturnLeavesNoStatus ==
    (last.op = "update" /\ last.arg = "returned") => with_status(exe_db) = {}

\* once stop() has been called no iteration is begun
NoPageAfterStop ==
    [][(~updater.running /\ updater.pc # "page") => updater'.pc # "page"]_vars

\* the check that follows stop() raises TerminatedCommand
StopTerminates ==
    [][(~updater.running /\ updater.pc = "check" /\ updater'.pc # "check")
          => updater'.pc = "terminated"]_vars

\* an update() in progress returns, unless stop() is called
UpdateReturns ==
    (updater.pc \in {"check", "page"}) ~> (updater.pc = "returned" \/ ~updater.running)

\* C30: once stop() has been called, update() begins no further iteration
\* and raises TerminatedCommand at its next check; and unless stop() is
\* called, an update() in progress eventually returns.
C30_StopsAtNextCheckElseReturns ==
    NoPageAfterStop /\ StopTerminates /\ UpdateReturns

\* C31: after A.add(B) and then A.subtract(B), A is equal (is_equal) to what
\* it was: the same resource names with the same values.
C31_AddThenSubtractRestores ==
    last.op = "add_subtract" => is_equal(resources[last.arg.self], last.arg.before)

\* C32: every value of a resource vector is non-negative after any sequence
\* of add, subtract and increase_up_to on vectors constructed from
\* non-negative values.
C32_ValuesNonNegative ==
    \A x \in DOMAIN resources : \A n \in DOMAIN resources[x] : resources[x][n] >= 0

\* C33: is_sufficient_to_meet is reflexive: A.is_sufficient_to_meet(A) is
\* true for every resource vector A.
C33_SufficientForItself ==
    (last.op = "is_sufficient_to_meet" /\ last.arg.self = last.arg.other) => last.out = TRUE

\* a vector with a custom resource and a value that is not zero was found
\* sufficient for itself
C33_Witness ==
    /\ last.op = "is_sufficient_to_meet" /\ last.arg.self = last.arg.other
    /\ last.out = TRUE
    /\ \E n \in CustomResources : /\ n \in DOMAIN resources[last.arg.self]
                                    /\ resources[last.arg.self][n] > 0

\* what populate_job_data is to set for the input size it was given
SizesPopulated ==
    (last.op = "populate_job_data" /\ ~last.raised) =>
        \A j \in last.out :
            LET job_type == job_types[db[j].job_type]
                input_mb == Ceil(last.arg, MiB)
            IN  /\ db[j].disk_in_required = Max(input_mb, MIN_DISK)
                /\ db[j].disk_out_required =
                       Max(required_mb(job_type.disk_out_mult_required, input_mb,
                                       job_type.disk_out_const_required), MIN_DISK)

\* the scenario: 10 MiB of input for a type with mem 64 + 0 x, disk out 64 + 1 x
SizesOfScenario ==
    (last.op = "populate_job_data" /\ ~last.raised /\ last.arg = 10 * MiB) =>
        \A j \in last.out :
            db[j].job_type = 2 =>
                /\ db[j].disk_in_required = 10
                /\ db[j].disk_out_required = 74

\* what get_resources is to return for a job
ResourcesRequired ==
    last.op = "get_resources" =>
        /\ ~last.raised
        /\ \A j \in last.jobs :
              LET job_type == job_types[db[j].job_type]
                  disk_in == IF db[j].disk_in_required = NoSize
                             THEN 0 ELSE db[j].disk_in_required
              IN  /\ last.out["mem"] =
                        Max(required_mb(job_type.mem_mult_required, disk_in,
                                        job_type.mem_const_required), MIN_MEM)
                  /\ last.out["disk"] =
                        disk_in + Max(required_mb(job_type.disk_out_mult_required, disk_in,
                                                  job_type.disk_out_const_required), MIN_DISK)
                  /\ last.out["cpus"] >= MIN_CPUS
                  /\ (db[j].job_type = 2 /\ disk_in = 10) => last.out["mem"] = 128

\* C34: populate_job_data sets disk_in_required = max(ceil(bytes / MiB),
\* MIN_DISK) and disk_out_required = max(ceil(mult * MiB of input + const),
\* MIN_DISK); get_resources returns mem = max(ceil(mult * disk_in + const),
\* MIN_MEM), disk = disk_in + disk_out and cpus >= MIN_CPUS, for a job
\* without input too; the scenario gives 10, 74 and 128.
C34_SizesAndResources ==
    SizesPopulated /\ SizesOfScenario /\ ResourcesRequired

C36_CompletionSurvivesNotification ==
    last.op = "complete_job" =>
        LET j == last.arg
            current == get_output(exe_db, j, last.pre[j].num_exes)
        IN  Cardinality(current) = 1 =>
                /\ db[j].status = "COMPLETED"
                /\ \A e \in current : db[j].results = exe_db[e].output

\* '%d' read back: the number a sequence of decimal digits stands for
RECURSIVE Number(_)
Number(digits) ==
    IF digits = <<>> THEN 0
    ELSE 10 * Number(SubSeq(digits, 1, Len(digits) - 1))
         + (CHOOSE d \in 0..9 : Digits[d + 1] = digits[Len(digits)])

\* C37: get_cluster_id returns the ID set_cluster_id stored on the
\* execution; two executions given the same (framework id, job id, exe_num)
\* have the same ID, two given the same framework id and a different job id
\* or exe_num have different IDs; an execution with no stored cluster_id
\* gets 'scale_' followed by its row id.
C37_ClusterIdOfExecution ==
    LET set == {pk \in 1..Len(exe_mem) : last.arg[pk] # <<>>}
    IN  /\ \A a \in set, b \in set :
              /\ last.arg[a] = last.arg[b] => exe_mem[a].cluster_id = exe_mem[b].cluster_id
              /\ (/\ last.arg[a][1] = last.arg[b][1]
                  /\ last.arg[a] # last.arg[b])
                 => exe_mem[a].cluster_id # exe_mem[b].cluster_id
        /\ last.op = "get_cluster_id" =>
              \A pk \in last.jobs :
                  IF pk \in set
                  THEN last.out = exe_mem[pk].cluster_id /\ last.out # <<>>
                  ELSE /\ SubSeq(last.out, 1, 6) = <<"s", "c", "a", "l", "e", "_">>
                       /\ Number(SubSeq(last.out, 7, Len(last.out))) = pk

\* get_cluster_id was called on an execution while two executions hold
\* IDs set with the same framework id, the job id and the execution number
\* exchanged
C37_Witness ==
    /\ last.op = "get_cluster_id"
    /\ \E a, b \in 1..Len(exe_mem) :
          /\ a \in last.jobs
          /\ last.arg[a] # <<>> /\ last.arg[b] # <<>>
          /\ last.arg[a][1] = last.arg[b][1]
          /\ last.arg[a][2] = last.arg[b][3]
          /\ last.arg[a][3] = last.arg[b][2]
          /\ last.arg[a][2] # last.arg[a][3]
          /\ last.out = exe_mem[a].cluster_id

\* C38: in every reachable state of the job table a job whose status is
\* FAILED, COMPLETED or CANCELED has an ended time, and a job whose status is
\* PENDING, BLOCKED, QUEUED or RUNNING has none.
C38_EndedIffFinal ==
    \A j \in JobIds :
        (db[j].status \in {"FAILED", "COMPLETED", "CANCELED"}) <=> (db[j].ended # NoTime)

\* C39: an edit_job_type of a system job type changes nothing of the job
\* type except is_paused and the paused time, and no revision; a call that
\* passes an interface, custom resources or a keyword other than is_paused
\* is rejected and leaves the job type and its revisions as they were.
C39_SystemTypeOnlyPaused ==
    [][ (last'.op = "edit_job_type" /\ last'.arg.job_type \in JobTypeIds)
        => LET t == last'.arg.job_type
           IN  job_types[t].is_system =>
                 /\ \A f \in DOMAIN job_types[t] \ {"is_paused", "paused"} :
                       job_types'[t][f] = job_types[t][f]
                 /\ job_type_revs' = job_type_revs
                 /\ (\/ last'.arg.interface # NoInterface
                     \/ last'.arg.custom_resources # NoCustomResources
                     \/ ~(DOMAIN last'.arg.kwargs \subseteq {"is_paused"}))
                    => (last'.raised /\ job_types' = job_types) ]_vars

====
